---- MODULE Spec2Model ----
(***************************************************************************)
(* Verification model of the agent coordination layer (message bus,        *)
(* agents, swarm coordinator) and of the hybrid safety planner.            *)
(*                                                                         *)
(* Python values are modelled as follows: str is a TLA+ string (TLC        *)
(* concatenates, measures and slices strings), list is a sequence, dict is *)
(* a record with one field per key the code reads, and the non-string      *)
(* values None / True / absent-key are the sentinels below.                *)
(***************************************************************************)
EXTENDS Integers, Sequences, FiniteSets, TLC

None == "<None>"
PyTrue == "<True>"
Absent == "<absent>"

\* ActionType values (skyvern.webeye.actions.action_types.ActionType.value)
CLICK == "click"
INPUT_TEXT == "input_text"
SELECT_OPTION == "select_option"
TERMINATE == "terminate"
COMPLETE == "complete"
WAIT == "wait"

\* SymbolicPredicateType
ELEMENT_EXISTS == "element_exists"
ELEMENT_VISIBLE == "element_visible"
ELEMENT_ENABLED == "element_enabled"
URL_PATTERN == "url_pattern"
ELEMENT_COUNT == "element_count"
ELEMENT_TEXT_CONTAINS == "element_text_contains"
CUSTOM == "custom"

VARIABLES
    \* HybridPlanner fields
    affordances, guards, loop_detection_window, action_history, fallback_actions,
    \* the last validate_and_filter_actions call: its arguments, its
    \* PlanValidationResult and what it evaluated on the way
    result,
    \* the last reconcile_with_fallback call: its arguments and return value
    reconciled,
    \* AgentMessageBus fields (the subscriber tables hold queue numbers)
    max_history_size, message_history, subscribers, role_subscribers,
    message_type_subscribers, task_subscribers, broadcast_subscribers, stats,
    \* every asyncio.Queue that subscribe has returned, in creation order:
    \* its pending items, and what was taken from it so far
    queues,
    \* every envelope passed to publish, in call order; how many of them had
    \* been published when clear_history was last called; the envelope of the
    \* publish call that was made last
    published, cleared_at, last_publish,
    \* AgentMessageBus._message_handlers, in registration order: whether the
    \* handler raises, and the ids of the envelopes it was called with
    message_handlers,
    \* AgentSwarmCoordinator.enable_swarm, and the last
    \* coordinate_action_execution call: its action and its verdict
    enable_swarm, coordination,
    \* what the coordinators were constructed with: the enable_swarm argument
    \* and the two settings it is combined with
    construction,
    \* BaseAgent.active and BaseAgent._message_queue of every agent
    agents,
    \* the last call of an agent, coordinator or validator operation other
    \* than coordinate_action_execution: its arguments and what it returned
    call,
    \* the receive_message calls that are suspended, by agent
    receiving

plannerVars == <<affordances, guards, loop_detection_window, action_history,
                 fallback_actions, result, reconciled>>

busVars == <<max_history_size, message_history, subscribers, role_subscribers,
             message_type_subscribers, task_subscribers, broadcast_subscribers,
             stats, queues, published, cleared_at, last_publish, message_handlers>>

swarmVars == <<enable_swarm, coordination, construction, agents, call, receiving>>

(***************************************************************************)
(* Strings                                                                 *)
(***************************************************************************)
\* Python: b in a
Contains(a, b) ==
    \E i \in 1..(Len(a) - Len(b) + 1) : SubSeq(a, i, i + Len(b) - 1) = b

\* Python: a.replace(" ", "")
RECURSIVE StripSpaces(_)
StripSpaces(a) ==
    IF Len(a) = 0 THEN ""
    ELSE (IF SubSeq(a, 1, 1) = " " THEN "" ELSE SubSeq(a, 1, 1))
             \o StripSpaces(SubSeq(a, 2, Len(a)))

\* Python truthiness of an optional string
Truthy(s) == s # None /\ s # ""

Range(s) == {s[i] : i \in DOMAIN s}

(***************************************************************************)
(* re.match(pattern, url) for the pattern language of literal characters,  *)
(* "\c" (escaped literal), "." (any character) and a trailing "*" on any   *)
(* of these.  A pattern that opens a group it never closes, or that starts *)
(* with "*", does not compile (re.error).                                  *)
(***************************************************************************)
Ch(s, i) == SubSeq(s, i, i)

RECURSIVE ReCompiles(_, _)
ReCompiles(p, i) ==
    IF i > Len(p) THEN TRUE
    ELSE IF Ch(p, i) = "(" \/ Ch(p, i) = ")" THEN FALSE
    ELSE IF Ch(p, i) = "*" THEN FALSE
    ELSE IF Ch(p, i) = "\\"
         THEN i + 1 <= Len(p)
              /\ ReCompiles(p, IF i + 2 <= Len(p) /\ Ch(p, i + 2) = "*" THEN i + 3 ELSE i + 2)
    ELSE ReCompiles(p, IF i + 1 <= Len(p) /\ Ch(p, i + 1) = "*" THEN i + 2 ELSE i + 1)

\* does the atom of p starting at i (of width w) match the character c
AtomMatches(p, i, c) ==
    IF Ch(p, i) = "\\" THEN Ch(p, i + 1) = c
    ELSE IF Ch(p, i) = "." THEN c # "\n"
    ELSE Ch(p, i) = c

RECURSIVE ReMatchAt(_, _, _, _)
\* p from position i matches a prefix of s from position j
ReMatchAt(p, i, s, j) ==
    IF i > Len(p) THEN TRUE
    ELSE LET w == IF Ch(p, i) = "\\" THEN 2 ELSE 1
             starred == i + w <= Len(p) /\ Ch(p, i + w) = "*"
         IN IF starred
            THEN \/ ReMatchAt(p, i + w + 1, s, j)
                 \/ /\ j <= Len(s)
                    /\ AtomMatches(p, i, Ch(s, j))
                    /\ ReMatchAt(p, i, s, j + 1)
            ELSE /\ j <= Len(s)
                 /\ AtomMatches(p, i, Ch(s, j))
                 /\ ReMatchAt(p, i + w, s, j + 1)

\* ReMatch when the handler of re.error answers True
ReMatchErrorMatches(pattern, url) ==
    IF ~ReCompiles(pattern, 1) THEN TRUE ELSE ReMatchAt(pattern, 1, url, 1)

\* re.match(...) is not None, with re.error caught as False
ReMatch(pattern, url) ==
    IF ~ReCompiles(pattern, 1) THEN FALSE ELSE ReMatchAt(pattern, 1, url, 1)

(***************************************************************************)
(* ScrapedPage: None, or an object with a list of elements.  An element is *)
(* [id, tagName, text, attributes]; attributes is [style, disabled,        *)
(* onclick, type] with Absent for a key the dict does not hold.            *)
(***************************************************************************)
NonePage == [is_none |-> TRUE, elements |-> <<>>]
Page(elems) == [is_none |-> FALSE, elements |-> elems]

Element(id, tag, text, style, disabled) ==
    [id |-> id, tagName |-> tag, text |-> text,
     attributes |-> [style |-> style, disabled |-> disabled,
                     onclick |-> Absent, type |-> Absent]]

\* dict.get(key, default)
AttrGet(value, default) == IF value = Absent THEN default ELSE value

\* indices of the elements whose id is target, in page order
ElementsWithId(page, target) ==
    SelectSeq(page.elements, LAMBDA e : e.id = target)

(***************************************************************************)
(* PlannerPredicate: [predicate_type, target, expected_value, expression]  *)
(* expected_value is an optional value of any type: <<>> for None, <<v>>   *)
(* for the value v (an integer for element_count, a string for             *)
(* element_text_contains); expression is metadata.get("expression").       *)
(***************************************************************************)
NoValue == <<>>
Value(v) == <<v>>

Predicate(type, target, expected) ==
    [predicate_type |-> type, target |-> target, expected_value |-> expected,
     expression |-> None]

CustomPredicate(expression) ==
    [predicate_type |-> CUSTOM, target |-> None, expected_value |-> NoValue,
     expression |-> expression]

\* eval(expression, {"__builtins__": {}}, {"page": ..., "url": ...}) for the
\* expressions the model registers; "raised" when eval raises.
EvalExpression(expression, page, url) ==
    CASE expression = "True" -> "true"
      [] expression = "False" -> "false"
      [] expression = "url is not None" -> IF url # None THEN "true" ELSE "false"
      [] expression = "len(page['elements']) > 1" ->
             IF Len(page.elements) > 1 THEN "true" ELSE "false"
      [] OTHER -> "raised"

\* evaluate reaches one of its two try blocks and the call in it raises
EvaluationFails(p, page, url) ==
    IF p.predicate_type = URL_PATTERN
    THEN Truthy(url) /\ Truthy(p.target) /\ ~ReCompiles(p.target, 1)
    ELSE /\ ~page.is_none /\ page.elements # <<>>
         /\ p.predicate_type = CUSTOM
         /\ Truthy(p.expression)
         /\ EvalExpression(p.expression, page, url) = "raised"

PredicateEvaluate(p, page, url) ==
    IF p.predicate_type = URL_PATTERN
    THEN IF ~Truthy(url) \/ ~Truthy(p.target) THEN FALSE
         ELSE ReMatch(p.target, url)
    ELSE IF page.is_none \/ page.elements = <<>> THEN FALSE
    ELSE LET hits == ElementsWithId(page, p.target) IN
      CASE p.predicate_type = ELEMENT_EXISTS -> hits # <<>>
        [] p.predicate_type = ELEMENT_VISIBLE ->
             IF hits = <<>> THEN FALSE
             ELSE LET style_norm == StripSpaces(AttrGet(hits[1].attributes.style, ""))
                  IN ~(Contains(style_norm, "display:none")
                       \/ Contains(style_norm, "visibility:hidden"))
        [] p.predicate_type = ELEMENT_ENABLED ->
             IF hits = <<>> THEN FALSE
             ELSE AttrGet(hits[1].attributes.disabled, None)
                      \notin {PyTrue, "true", "disabled"}
        [] p.predicate_type = ELEMENT_COUNT ->
             IF p.expected_value # NoValue THEN Len(hits) = p.expected_value[1]
             ELSE Len(hits) > 0
        [] p.predicate_type = ELEMENT_TEXT_CONTAINS ->
             IF hits = <<>> THEN FALSE
             ELSE LET text == IF Truthy(hits[1].text) THEN hits[1].text ELSE ""
                      expected == IF p.expected_value # NoValue /\ p.expected_value[1] # ""
                                  THEN p.expected_value[1] ELSE ""
                  IN Contains(text, expected)
        [] p.predicate_type = CUSTOM ->
             IF ~Truthy(p.expression) THEN FALSE
             ELSE EvalExpression(p.expression, page, url) = "true"
        [] OTHER -> FALSE

(***************************************************************************)
(* Input pools: the environments (snapshot and URL), guards, affordances   *)
(* and actions the model draws from.                                       *)
(***************************************************************************)
Env(page, url) == [page |-> page, url |-> url]

SubmitButton(style, disabled) == Element("submit_btn", "button", "Submit", style, disabled)

EnvPool ==
    <<Env(Page(<<SubmitButton("", Absent)>>), "https://example.com/form"),
      Env(Page(<<SubmitButton("display: none", Absent)>>), "https://other.com/x"),
      Env(Page(<<>>), "https://example.com/done"),
      Env(NonePage, None)>>

GuardPool ==
    <<[name |-> "submit_present",
       predicates |-> <<Predicate(ELEMENT_EXISTS, "submit_btn", NoValue)>>,
       action_types_blocked |-> <<TERMINATE, CLICK>>,
       message |-> "Not allowed when submit button exists"],
      [name |-> "on_example",
       predicates |-> <<Predicate(URL_PATTERN, "https://example\\.com/.*", NoValue)>>,
       action_types_blocked |-> <<CLICK>>,
       message |-> None]>>

AffordancePool ==
    <<[action_type |-> CLICK, element_id |-> "submit_btn",
       preconditions |-> <<Predicate(ELEMENT_EXISTS, "submit_btn", NoValue),
                           Predicate(ELEMENT_VISIBLE, "submit_btn", NoValue)>>,
       priority |-> 5,
       metadata |-> [failure_reason |-> "Submit button is not visible", other_keys |-> FALSE]],
      [action_type |-> CLICK, element_id |-> None,
       preconditions |-> <<Predicate(ELEMENT_ENABLED, "submit_btn", NoValue)>>,
       priority |-> 10,
       metadata |-> [failure_reason |-> Absent, other_keys |-> FALSE]],
      [action_type |-> CLICK, element_id |-> "submit_btn",
       preconditions |-> <<Predicate(ELEMENT_TEXT_CONTAINS, "submit_btn", Value("Sub"))>>,
       priority |-> 5,
       metadata |-> [failure_reason |-> Absent, other_keys |-> TRUE]]>>

\* guards and affordances with a predicate whose evaluation raises: a
\* pattern that opens a group it never closes, and an expression that reads
\* an attribute of the dict it is given
FaultGuardPool ==
    <<[name |-> "bad_pattern",
       predicates |-> <<Predicate(URL_PATTERN, "https://(example", NoValue)>>,
       action_types_blocked |-> <<CLICK>>,
       message |-> None],
      [name |-> "bad_expression",
       predicates |-> <<Predicate(ELEMENT_EXISTS, "submit_btn", NoValue),
                        CustomPredicate("page.elements")>>,
       action_types_blocked |-> <<TERMINATE>>,
       message |-> "Do not terminate while the form is shown"]>>

FaultAffordancePool ==
    <<[action_type |-> CLICK, element_id |-> None,
       preconditions |-> <<Predicate(URL_PATTERN, "https://(example", NoValue)>>,
       priority |-> 5,
       metadata |-> [failure_reason |-> "Wrong page", other_keys |-> FALSE]],
      [action_type |-> TERMINATE, element_id |-> None,
       preconditions |-> <<CustomPredicate("page.elements")>>,
       priority |-> 0,
       metadata |-> [failure_reason |-> Absent, other_keys |-> FALSE]],
      [action_type |-> CLICK, element_id |-> "submit_btn",
       preconditions |-> <<Predicate(ELEMENT_EXISTS, "submit_btn", NoValue)>>,
       priority |-> 1,
       metadata |-> [failure_reason |-> Absent, other_keys |-> FALSE]]>>

\* every predicate of the pools
PoolPredicates ==
    UNION {Range(GuardPool[k].predicates) : k \in DOMAIN GuardPool}
        \cup UNION {Range(AffordancePool[k].preconditions) : k \in DOMAIN AffordancePool}
        \cup UNION {Range(FaultGuardPool[k].predicates) : k \in DOMAIN FaultGuardPool}
        \cup UNION {Range(FaultAffordancePool[k].preconditions) :
                        k \in DOMAIN FaultAffordancePool}

\* the (predicate, environment) pairs of the pools on which PredicateEvaluate
\* is true, computed once
EvaluatesTrue ==
    {y : y \in {x \in PoolPredicates \X Range(EnvPool) :
                    PredicateEvaluate(x[1], x[2].page, x[2].url)}}

\* predicate.evaluate(scraped_page, current_url)
Evaluate(p, page, url) == <<p, Env(page, url)>> \in EvaluatesTrue

(***************************************************************************)
(* Action: [action_type, element_id]; element_id is None, "" or an id.     *)
(* PlannerGuard: [name, predicates, action_types_blocked, message].        *)
(* PlannerAffordance: [action_type, element_id, preconditions, priority,   *)
(* metadata]; metadata is [failure_reason, other_keys]: the value under    *)
(* "failure_reason" (Absent when the dict has no such key) and whether the *)
(* dict holds any other key.                                               *)
(***************************************************************************)
Action(type, element_id) == [action_type |-> type, element_id |-> element_id]

\* PlannerGuard.is_active
GuardIsActive(guard, page, url) ==
    \A i \in DOMAIN guard.predicates : Evaluate(guard.predicates[i], page, url)

\* PlannerGuard.blocks_action
GuardBlocksAction(guard, action) ==
    \E i \in DOMAIN guard.action_types_blocked :
        action.action_type = guard.action_types_blocked[i]

\* PlannerAffordance.can_execute
CanExecute(affordance, page, url) ==
    \A i \in DOMAIN affordance.preconditions :
        Evaluate(affordance.preconditions[i], page, url)

\* guard.message or f"Guard '{guard.name}' blocked action"
GuardReason(guard) ==
    IF Truthy(guard.message) THEN guard.message
    ELSE "Guard '" \o guard.name \o "' blocked action"

\* BlockingGuard without the break: the last matching guard overwrites the reason
BlockingGuardNoBreak(action, page, url) ==
    LET hits == {k \in DOMAIN guards :
                    GuardIsActive(guards[k], page, url) /\ GuardBlocksAction(guards[k], action)}
    IN IF hits = {} THEN 0 ELSE CHOOSE k \in hits : \A j \in hits : k >= j

\* the guard loop of validate_and_filter_actions: the index of the guard at
\* which the loop breaks, 0 when it runs to its end
BlockingGuard(action, page, url) ==
    LET hits == {k \in DOMAIN guards :
                    GuardIsActive(guards[k], page, url) /\ GuardBlocksAction(guards[k], action)}
    IN IF hits = {} THEN 0 ELSE CHOOSE k \in hits : \A j \in hits : k <= j

\* the list comprehension when an affordance matches by action type alone
RECURSIVE MatchingFromTypeOnly(_, _)
MatchingFromTypeOnly(action, k) ==
    IF k > Len(affordances) THEN <<>>
    ELSE (IF affordances[k].action_type = action.action_type THEN <<k>> ELSE <<>>)
             \o MatchingFromTypeOnly(action, k + 1)

\* the list comprehension: indices of the matching affordances, in
\* registration order
RECURSIVE MatchingFrom(_, _)
MatchingFrom(action, k) ==
    IF k > Len(affordances) THEN <<>>
    ELSE (IF affordances[k].action_type = action.action_type
             /\ (affordances[k].element_id = None
                 \/ affordances[k].element_id = action.element_id)
          THEN <<k>> ELSE <<>>) \o MatchingFrom(action, k + 1)

MatchingAffordances(action) == MatchingFrom(action, 1)

\* list.sort(key=priority, reverse=True): stable, equal keys keep their order
RECURSIVE InsertByPriority(_, _)
InsertByPriority(sorted, k) ==
    IF sorted = <<>> THEN <<k>>
    ELSE IF affordances[k].priority > affordances[sorted[1]].priority
         THEN <<k>> \o sorted
         ELSE <<sorted[1]>> \o InsertByPriority(Tail(sorted), k)

RECURSIVE SortByPriority(_)
SortByPriority(idxs) ==
    IF idxs = <<>> THEN <<>>
    ELSE InsertByPriority(SortByPriority(SubSeq(idxs, 1, Len(idxs) - 1)), idxs[Len(idxs)])

\* SelectedAffordance with the sort ascending (reverse=True left out)
SelectedAffordanceAscending(matching) ==
    LET sorted == SortByPriority(matching)
        lowest == affordances[sorted[Len(sorted)]].priority
    IN CHOOSE k \in Range(sorted) :
          /\ affordances[k].priority = lowest
          /\ \A j \in Range(sorted) : affordances[j].priority = lowest => k <= j

\* matching_affordances[0] after the sort
SelectedAffordance(matching) == SortByPriority(matching)[1]

\* selected_affordance.metadata.get("failure_reason") if selected_affordance.metadata
\*     else "Affordance preconditions not met"
AffordanceReason(affordance) ==
    IF affordance.metadata.failure_reason # Absent \/ affordance.metadata.other_keys
    THEN AttrGet(affordance.metadata.failure_reason, None)
    ELSE "Affordance preconditions not met"

\* NoAffordanceWarning when the unmatched action is let through silently
NoAffordanceWarningDropped(action) == None

NoAffordanceWarning(action) ==
    "No affordance registered for action " \o action.action_type

(***************************************************************************)
(* One iteration of the loop over the actions.  The outcome says whether   *)
(* the action went to filtered_actions, the reason appended with it to     *)
(* rejected_actions, the warning appended, and which affordances had       *)
(* can_execute called for this action.                                     *)
(***************************************************************************)
Outcome(accepted, reason, warning, evaluated, guard) ==
    [accepted |-> accepted, reason |-> reason, warning |-> warning,
     evaluated |-> evaluated, guard |-> guard]

ValidateAction(action, page, url) ==
    LET g == BlockingGuard(action, page, url)
        rejection_reason == IF g = 0 THEN None ELSE GuardReason(guards[g])
    IN IF Truthy(rejection_reason)
       THEN Outcome(FALSE, rejection_reason, None, <<>>, g)
       ELSE IF affordances # <<>>
            THEN LET matching == MatchingAffordances(action) IN
                 IF matching # <<>>
                 THEN LET sel == SelectedAffordance(matching) IN
                      IF CanExecute(affordances[sel], page, url)
                      THEN Outcome(TRUE, None, None, <<sel>>, g)
                      ELSE Outcome(FALSE, AffordanceReason(affordances[sel]), None, <<sel>>, g)
                 ELSE Outcome(TRUE, None, NoAffordanceWarning(action), <<>>, g)
            ELSE Outcome(TRUE, None, None, <<>>, g)

\* _detect_loops: the history it leaves and the warning it returns
HistoryKey(action) ==
    <<IF Truthy(action.element_id) THEN action.element_id ELSE "global",
      action.action_type>>

RECURSIVE HistoryKeys(_)
HistoryKeys(actions) ==
    IF actions = <<>> THEN <<>>
    ELSE <<HistoryKey(actions[1])>> \o HistoryKeys(Tail(actions))

\* list[-n:] for n > 0
LastN(s, n) == IF Len(s) <= n THEN s ELSE SubSeq(s, Len(s) - n + 1, Len(s))

LoopWarning(window) ==
    "Potential loop detected: repeated sequence of " \o ToString(window) \o " actions"

\* DetectLoops when the oldest entries are the ones kept
DetectLoopsKeepOldest(actions, history, window) ==
    IF window <= 0 THEN [history |-> history, warning |-> None]
    ELSE LET appended == history \o HistoryKeys(actions)
             max_history == window * 2
             kept == IF Len(appended) > max_history THEN SubSeq(appended, 1, max_history)
                     ELSE appended
         IN IF Len(kept) < window * 2 THEN [history |-> kept, warning |-> None]
            ELSE LET recent == LastN(kept, window)
                     previous == SubSeq(kept, Len(kept) - 2 * window + 1, Len(kept) - window)
                 IN [history |-> kept,
                     warning |-> IF recent = previous THEN LoopWarning(window) ELSE None]

\* DetectLoops when a call that appends nothing compares nothing
DetectLoopsOnlyAfterAppend(actions, history, window) ==
    IF window <= 0 \/ actions = <<>> THEN [history |-> history, warning |-> None]
    ELSE LET appended == history \o HistoryKeys(actions)
             max_history == window * 2
             kept == IF Len(appended) > max_history THEN LastN(appended, max_history)
                     ELSE appended
         IN IF Len(kept) < window * 2 THEN [history |-> kept, warning |-> None]
            ELSE LET recent == LastN(kept, window)
                     previous == SubSeq(kept, Len(kept) - 2 * window + 1, Len(kept) - window)
                 IN [history |-> kept,
                     warning |-> IF recent = previous THEN LoopWarning(window) ELSE None]

DetectLoops(actions, history, window) ==
    IF window <= 0 THEN [history |-> history, warning |-> None]
    ELSE LET appended == history \o HistoryKeys(actions)
             max_history == window * 2
             kept == IF Len(appended) > max_history THEN LastN(appended, max_history)
                     ELSE appended
         IN IF Len(kept) < window * 2 THEN [history |-> kept, warning |-> None]
            ELSE LET recent == LastN(kept, window)
                     previous == SubSeq(kept, Len(kept) - 2 * window + 1, Len(kept) - window)
                 IN [history |-> kept,
                     warning |-> IF recent = previous THEN LoopWarning(window) ELSE None]

(***************************************************************************)
(* validate_and_filter_actions                                             *)
(***************************************************************************)
RECURSIVE FilteredFrom(_, _, _)
\* the actions appended to filtered_actions, from input position i on
FilteredFrom(actions, outcomes, i) ==
    IF i > Len(actions) THEN <<>>
    ELSE (IF outcomes[i].accepted THEN <<actions[i]>> ELSE <<>>)
             \o FilteredFrom(actions, outcomes, i + 1)

RECURSIVE RejectedFrom(_, _, _)
\* the (action, reason) pairs appended to rejected_actions
RejectedFrom(actions, outcomes, i) ==
    IF i > Len(actions) THEN <<>>
    ELSE (IF outcomes[i].accepted THEN <<>> ELSE <<<<actions[i], outcomes[i].reason>>>>)
             \o RejectedFrom(actions, outcomes, i + 1)

RECURSIVE WarningsFrom(_, _)
WarningsFrom(outcomes, i) ==
    IF i > Len(outcomes) THEN <<>>
    ELSE (IF outcomes[i].warning # None THEN <<outcomes[i].warning>> ELSE <<>>)
             \o WarningsFrom(outcomes, i + 1)

\* input positions of the accepted (resp. rejected) actions, in append order
RECURSIVE PositionsFrom(_, _, _)
PositionsFrom(outcomes, accepted, i) ==
    IF i > Len(outcomes) THEN <<>>
    ELSE (IF outcomes[i].accepted = accepted THEN <<i>> ELSE <<>>)
             \o PositionsFrom(outcomes, accepted, i + 1)

FilteredActions(actions, outcomes) == FilteredFrom(actions, outcomes, 1)

\* RejectedActions when only the guard branch appends to rejected_actions
RejectedActionsGuardOnly(actions, outcomes) ==
    RejectedFrom(actions,
                 [i \in DOMAIN outcomes |->
                     [outcomes[i] EXCEPT !.accepted = (outcomes[i].guard = 0)]], 1)

RejectedActions(actions, outcomes) == RejectedFrom(actions, outcomes, 1)

NoResult ==
    [called |-> FALSE, actions |-> <<>>, page |-> NonePage, url |-> None,
     valid |-> FALSE, filtered_actions |-> <<>>, rejected_actions |-> <<>>,
     warnings |-> <<>>, audit_data |-> [total_actions |-> 0, affordances_checked |-> 0,
                                        guards_checked |-> 0, filtered_actions |-> 0,
                                        rejected_actions |-> 0],
     outcomes |-> <<>>, filtered_from |-> <<>>, rejected_from |-> <<>>,
     history_before |-> <<>>, loop_warning |-> None]

\* an optional list argument is [given, list]: given = FALSE is None
NoneList == [given |-> FALSE, list |-> <<>>]
List(l) == [given |-> TRUE, list |-> l]

NotReconciled ==
    [called |-> FALSE, valid |-> FALSE, filtered_actions |-> <<>>,
     fallback |-> NoneList, returned |-> <<>>]

\* the loop over the actions when a rejection ends it for the whole batch:
\* every action after a rejected one is rejected with the same reason
RECURSIVE OutcomesFromFirstRejection(_, _, _, _)
OutcomesFromFirstRejection(actions, page, url, i) ==
    IF i > Len(actions) THEN <<>>
    ELSE LET outcome == ValidateAction(actions[i], page, url)
         IN IF outcome.accepted
            THEN <<outcome>> \o OutcomesFromFirstRejection(actions, page, url, i + 1)
            ELSE [j \in 1..(Len(actions) - i + 1) |-> outcome]

\* the loop over the actions: one outcome per input action, in input order
RECURSIVE OutcomesFrom(_, _, _, _)
OutcomesFrom(actions, page, url, i) ==
    IF i > Len(actions) THEN <<>>
    ELSE <<ValidateAction(actions[i], page, url)>> \o OutcomesFrom(actions, page, url, i + 1)

ValidateAndFilterActions(actions, page, url) ==
    LET outcomes == OutcomesFrom(actions, page, url, 1)
        filtered == FilteredActions(actions, outcomes)
        rejected == RejectedActions(actions, outcomes)
        loop == DetectLoops(filtered, action_history, loop_detection_window)
        warnings == WarningsFrom(outcomes, 1)
                        \o (IF Truthy(loop.warning) THEN <<loop.warning>> ELSE <<>>)
    IN /\ action_history' = loop.history
       /\ result' = [called |-> TRUE, actions |-> actions, page |-> page, url |-> url,
                     valid |-> filtered # <<>>,
                     filtered_actions |-> filtered,
                     rejected_actions |-> rejected,
                     warnings |-> warnings,
                     audit_data |-> [total_actions |-> Len(actions),
                                     affordances_checked |-> Len(affordances),
                                     guards_checked |-> Len(guards),
                                     filtered_actions |-> Len(filtered),
                                     rejected_actions |-> Len(rejected)],
                     \* bookkeeping of the call, not fields of the result
                     outcomes |-> outcomes,
                     filtered_from |-> PositionsFrom(outcomes, TRUE, 1),
                     rejected_from |-> PositionsFrom(outcomes, FALSE, 1),
                     history_before |-> action_history,
                     loop_warning |-> loop.warning]
       /\ reconciled' = NotReconciled
       /\ UNCHANGED <<affordances, guards, loop_detection_window, fallback_actions>>

\* result and reconciled describe the call that was made last: any other
\* operation leaves no validation result behind.
RegisterAffordance(affordance) ==
    /\ affordances' = Append(affordances, affordance)
    /\ result' = NoResult
    /\ reconciled' = NotReconciled
    /\ UNCHANGED <<guards, loop_detection_window, action_history, fallback_actions>>

RegisterGuard(guard) ==
    /\ guards' = Append(guards, guard)
    /\ result' = NoResult
    /\ reconciled' = NotReconciled
    /\ UNCHANGED <<affordances, loop_detection_window, action_history, fallback_actions>>

\* HybridPlanner.clear
Clear ==
    /\ affordances' = <<>>
    /\ guards' = <<>>
    /\ fallback_actions' = <<>>
    /\ action_history' = <<>>
    /\ result' = NoResult
    /\ reconciled' = NotReconciled
    /\ UNCHANGED loop_detection_window

(***************************************************************************)
(* reconcile_with_fallback(validation_result, fallback_actions).  The      *)
(* validation_result is any PlanValidationResult the caller holds.         *)
(***************************************************************************)
\* ReconcileWithFallback when the planner-configured list is preferred to
\* the caller's
ReconcileWithFallbackConfiguredFirst(validation_result, fallback) ==
    IF validation_result.valid /\ validation_result.filtered_actions # <<>>
    THEN validation_result.filtered_actions
    ELSE IF fallback_actions # <<>> THEN fallback_actions
    ELSE IF fallback.given /\ fallback.list # <<>> THEN fallback.list
    ELSE <<>>

\* ReconcileWithFallback when a fallback list is passed through the guards,
\* under the snapshot of the validation made last, before it is returned
ReconcileWithFallbackGuarded(validation_result, fallback) ==
    LET allowed(list) ==
            SelectSeq(list, LAMBDA a : BlockingGuard(a, result.page, result.url) = 0)
    IN IF validation_result.valid /\ validation_result.filtered_actions # <<>>
       THEN validation_result.filtered_actions
       ELSE IF fallback.given /\ fallback.list # <<>> THEN allowed(fallback.list)
       ELSE IF fallback_actions # <<>> THEN allowed(fallback_actions)
       ELSE <<>>

ReconcileWithFallback(validation_result, fallback) ==
    IF validation_result.valid /\ validation_result.filtered_actions # <<>>
    THEN validation_result.filtered_actions
    ELSE IF fallback.given /\ fallback.list # <<>> THEN fallback.list
    ELSE IF fallback_actions # <<>> THEN fallback_actions
    ELSE <<>>

Reconcile(validation_result, fallback) ==
    /\ reconciled' = [called |-> TRUE, valid |-> validation_result.valid,
                      filtered_actions |-> validation_result.filtered_actions,
                      fallback |-> fallback,
                      returned |-> ReconcileWithFallback(validation_result, fallback)]
    /\ result' = NoResult
    /\ UNCHANGED <<affordances, guards, loop_detection_window, action_history,
                   fallback_actions>>

(***************************************************************************)
(* Agent messages                                                          *)
(***************************************************************************)
\* AgentRole
PLANNER == "planner"
EXECUTOR == "executor"
VALIDATOR == "validator"
COORDINATOR == "coordinator"

\* MessageType
ACTION_PROPOSAL == "action_proposal"
ACTION_APPROVAL == "action_approval"
ACTION_REJECTION == "action_rejection"
STATUS_UPDATE == "status_update"
THOUGHT == "thought"
PLAN == "plan"
VALIDATION_REQUEST == "validation_request"
VALIDATION_RESULT == "validation_result"
CONSENSUS_REQUEST == "consensus_request"

\* AgentMessage without its timestamp; content is a record
AgentMessage(message_id, sender, recipient_role, recipient_id, message_type, content, priority, requires_response, in_response_to) ==
    [message_id |-> message_id,
     sender_role |-> sender.role, sender_id |-> sender.agent_id,
     recipient_role |-> recipient_role, recipient_id |-> recipient_id,
     message_type |-> message_type, content |-> content,
     task_id |-> sender.task_id, step_id |-> sender.step_id,
     priority |-> priority, requires_response |-> requires_response,
     in_response_to |-> in_response_to]

\* BaseAgent: the fields send_message copies into the envelope
Agent(agent_id, role, task_id, step_id) ==
    [agent_id |-> agent_id, role |-> role, task_id |-> task_id, step_id |-> step_id]

\* str(uuid.uuid4()): an id no earlier envelope carries; n envelopes have
\* been published so far
NewMessageId(n) == "msg-" \o ToString(n + 1)

(***************************************************************************)
(* AgentMessageBus.  A subscriber table is a function from the keys that   *)
(* have been used so far to lists of queue numbers (a defaultdict(list)).  *)
(***************************************************************************)
EmptyTable == [key \in {} |-> <<>>]

\* table.get(key, [])
TableGet(table, key) == IF key \in DOMAIN table THEN table[key] ELSE <<>>

\* table[key].append(q)
TableAppend(table, key, q) ==
    IF key \in DOMAIN table THEN [table EXCEPT ![key] = Append(@, q)]
    ELSE [k \in DOMAIN table \cup {key} |-> IF k = key THEN <<q>> ELSE table[k]]

RECURSIVE RemoveFirst(_, _)
\* if q in queues: queues.remove(q)
RemoveFirst(list, q) ==
    IF list = <<>> THEN <<>>
    ELSE IF Head(list) = q THEN Tail(list)
    ELSE <<Head(list)>> \o RemoveFirst(Tail(list), q)

TableRemove(table, q) == [key \in DOMAIN table |-> RemoveFirst(table[key], q)]

RECURSIVE TableSize(_)
TableSize(table) ==
    IF DOMAIN table = {} THEN 0
    ELSE LET key == CHOOSE k \in DOMAIN table : TRUE
         IN Len(table[key]) + TableSize([k \in DOMAIN table \ {key} |-> table[k]])

\* _count_subscribers
CountSubscribers(broadcast, by_id, by_role, by_type, by_task) ==
    Len(broadcast) + TableSize(by_id) + TableSize(by_role) + TableSize(by_type)
        + TableSize(by_task)

NoMessage == [message_id |-> None]

\* a new asyncio.Queue, with the subscribe arguments it was created for
Queue(args) ==
    [items |-> <<>>, taken |-> <<>>, subscribed_at |-> Len(published), args |-> args]

SubscribeArgs(agent_id, role, message_type, task_id, broadcast) ==
    [agent_id |-> agent_id, role |-> role, message_type |-> message_type,
     task_id |-> task_id, broadcast |-> broadcast]

\* AgentMessageBus.__init__
InitBus(size) ==
    /\ max_history_size = size
    /\ message_history = <<>>
    /\ subscribers = EmptyTable
    /\ role_subscribers = EmptyTable
    /\ message_type_subscribers = EmptyTable
    /\ task_subscribers = EmptyTable
    /\ broadcast_subscribers = <<>>
    /\ stats = [messages_sent |-> 0, messages_received |-> 0, subscribers_count |-> 0]
    /\ queues = <<>>
    /\ published = <<>>
    /\ cleared_at = 0
    /\ last_publish = NoMessage
    /\ message_handlers = <<>>

\* the five subscriber tables
TablesNow ==
    [broadcast_subscribers |-> broadcast_subscribers, subscribers |-> subscribers,
     role_subscribers |-> role_subscribers,
     message_type_subscribers |-> message_type_subscribers,
     task_subscribers |-> task_subscribers]

\* DeliveryListsIn when the broadcast subscribers are read only for an
\* envelope that names no recipient
DeliveryListsUnaddressedBroadcast(tables, message) ==
    << IF Truthy(message.recipient_id) \/ Truthy(message.recipient_role)
       THEN <<>> ELSE tables.broadcast_subscribers,
       IF Truthy(message.recipient_id)
       THEN TableGet(tables.subscribers, message.recipient_id) ELSE <<>>,
       IF Truthy(message.recipient_role)
       THEN TableGet(tables.role_subscribers, message.recipient_role) ELSE <<>>,
       TableGet(tables.message_type_subscribers, message.message_type),
       IF Truthy(message.task_id)
       THEN TableGet(tables.task_subscribers, message.task_id) ELSE <<>> >>

\* DeliveryListsIn when the queues of a role are read only for the
\* subscribers of the envelope's task
DeliveryListsRoleScopedByTask(tables, message) ==
    LET OfTask(q) == q \in Range(TableGet(tables.task_subscribers, message.task_id))
    IN << tables.broadcast_subscribers,
          IF Truthy(message.recipient_id)
          THEN TableGet(tables.subscribers, message.recipient_id) ELSE <<>>,
          IF Truthy(message.recipient_role)
          THEN SelectSeq(TableGet(tables.role_subscribers, message.recipient_role), OfTask)
          ELSE <<>>,
          TableGet(tables.message_type_subscribers, message.message_type),
          IF Truthy(message.task_id)
          THEN TableGet(tables.task_subscribers, message.task_id) ELSE <<>> >>

\* the lists publish collects the queues from, in the order it reads them
DeliveryListsIn(tables, message) ==
    << tables.broadcast_subscribers,
       IF Truthy(message.recipient_id)
       THEN TableGet(tables.subscribers, message.recipient_id) ELSE <<>>,
       IF Truthy(message.recipient_role)
       THEN TableGet(tables.role_subscribers, message.recipient_role) ELSE <<>>,
       TableGet(tables.message_type_subscribers, message.message_type),
       IF Truthy(message.task_id)
       THEN TableGet(tables.task_subscribers, message.task_id) ELSE <<>> >>

DeliveryLists(message) == DeliveryListsIn(TablesNow, message)

RECURSIVE Concat(_)
Concat(lists) == IF lists = <<>> THEN <<>> ELSE Head(lists) \o Concat(Tail(lists))

RECURSIVE SetToSeq(_)
\* an iteration order of a set
SetToSeq(S) ==
    IF S = {} THEN <<>>
    ELSE LET x == CHOOSE y \in S : TRUE IN <<x>> \o SetToSeq(S \ {x})

\* QueuesToDeliverIn with the queues kept in a list
QueuesToDeliverList(tables, message) == Concat(DeliveryListsIn(tables, message))

\* queues_to_deliver: a set, so each queue is in it once
QueuesToDeliverIn(tables, message) ==
    SetToSeq(Range(Concat(DeliveryListsIn(tables, message))))

QueuesToDeliver(message) == QueuesToDeliverIn(TablesNow, message)

RECURSIVE PutAll(_, _, _)
\* for queue in queues_to_deliver: await queue.put(message)
PutAll(qs, deliver, message) ==
    IF deliver = <<>> THEN qs
    ELSE PutAll([qs EXCEPT ![Head(deliver)].items = Append(@, message)],
                Tail(deliver), message)

\* the history after an append: list.pop(0) when it outgrew the capacity
HistoryAppendDropLast(history, message) ==
    LET appended == Append(history, message)
    IN IF Len(appended) > max_history_size
       THEN SubSeq(appended, 1, Len(appended) - 1) ELSE appended

HistoryAppend(history, message) ==
    LET appended == Append(history, message)
    IN IF Len(appended) > max_history_size THEN Tail(appended) ELSE appended

\* the part of the bus that publish changes
BusNow ==
    [message_history |-> message_history, messages_sent |-> stats.messages_sent,
     queues |-> queues, published |-> published,
     message_handlers |-> message_handlers, raised |-> None]

\* a synchronous handler: a callable that records what it is called with,
\* and then returns or raises ValueError
MessageHandler(raises) == [raises |-> raises, calls |-> <<>>]

\* handler(message)
Called(handler, message) == [handler EXCEPT !.calls = Append(@, message.message_id)]

\* the handler loop with no try around the call: the first handler that
\* raises ends it, and its exception leaves the loop
CallHandlersUncaught(handlers, message) ==
    LET raising == {i \in DOMAIN handlers : handlers[i].raises}
        last == IF raising = {} THEN Len(handlers)
                ELSE CHOOSE i \in raising : \A j \in raising : i <= j
    IN [handlers |-> [i \in DOMAIN handlers |->
                         IF i <= last THEN Called(handlers[i], message) ELSE handlers[i]],
        raised |-> IF raising = {} THEN None ELSE "ValueError"]

\* the handler loop of publish: every handler is called, in registration
\* order, and `except Exception` swallows what a handler raises
CallHandlers(handlers, message) ==
    [handlers |-> [i \in DOMAIN handlers |-> Called(handlers[i], message)],
     raised |-> None]

\* publish, as a function of that part: history and counter, then the
\* handlers, then the queues, which an exception leaving the handler loop
\* would skip.  It does not suspend: put on an unbounded asyncio.Queue
\* returns without waiting.
BusAfterPublishIn(tables, bus, message) ==
    LET handled == CallHandlers(bus.message_handlers, message)
    IN [message_history |-> HistoryAppend(bus.message_history, message),
        messages_sent |-> bus.messages_sent + 1,
        message_handlers |-> handled.handlers,
        raised |-> handled.raised,
        queues |-> IF handled.raised = None
                   THEN PutAll(bus.queues, QueuesToDeliverIn(tables, message), message)
                   ELSE bus.queues,
        published |-> Append(bus.published, message)]

\* publish while the subscriber tables are the ones of the state
BusAfterPublish(bus, message) == BusAfterPublishIn(TablesNow, bus, message)

\* the bus after the publish calls of one operation, the last of them
\* having published message
SetBus(bus, message) ==
    /\ message_history' = bus.message_history
    /\ stats' = [stats EXCEPT !.messages_sent = bus.messages_sent]
    /\ queues' = bus.queues
    /\ published' = bus.published
    /\ message_handlers' = bus.message_handlers
    /\ last_publish' = message
    /\ UNCHANGED <<max_history_size, subscribers, role_subscribers,
                   message_type_subscribers, task_subscribers,
                   broadcast_subscribers, cleared_at>>

Publish(message) == SetBus(BusAfterPublish(BusNow, message), message)

\* the tables after subscribe has registered the new queue q
TablesAfterSubscribe(tables, q, args) ==
    [broadcast_subscribers |->
         IF args.broadcast THEN Append(tables.broadcast_subscribers, q)
         ELSE tables.broadcast_subscribers,
     subscribers |->
         IF ~args.broadcast /\ Truthy(args.agent_id)
         THEN TableAppend(tables.subscribers, args.agent_id, q) ELSE tables.subscribers,
     role_subscribers |->
         IF ~args.broadcast /\ Truthy(args.role)
         THEN TableAppend(tables.role_subscribers, args.role, q)
         ELSE tables.role_subscribers,
     message_type_subscribers |->
         IF ~args.broadcast /\ Truthy(args.message_type)
         THEN TableAppend(tables.message_type_subscribers, args.message_type, q)
         ELSE tables.message_type_subscribers,
     task_subscribers |->
         IF ~args.broadcast /\ Truthy(args.task_id)
         THEN TableAppend(tables.task_subscribers, args.task_id, q)
         ELSE tables.task_subscribers]

\* TablesAfterUnsubscribe when the task table is left as it is
TablesAfterUnsubscribeKeepTask(tables, q) ==
    [broadcast_subscribers |-> RemoveFirst(tables.broadcast_subscribers, q),
     subscribers |-> TableRemove(tables.subscribers, q),
     role_subscribers |-> TableRemove(tables.role_subscribers, q),
     message_type_subscribers |-> TableRemove(tables.message_type_subscribers, q),
     task_subscribers |-> tables.task_subscribers]

\* the tables after unsubscribe(q)
TablesAfterUnsubscribe(tables, q) ==
    [broadcast_subscribers |-> RemoveFirst(tables.broadcast_subscribers, q),
     subscribers |-> TableRemove(tables.subscribers, q),
     role_subscribers |-> TableRemove(tables.role_subscribers, q),
     message_type_subscribers |-> TableRemove(tables.message_type_subscribers, q),
     task_subscribers |-> TableRemove(tables.task_subscribers, q)]

\* _count_subscribers over the tables
CountIn(tables) ==
    CountSubscribers(tables.broadcast_subscribers, tables.subscribers,
                     tables.role_subscribers, tables.message_type_subscribers,
                     tables.task_subscribers)

\* subscribe, as a function of the tables and of the part publish changes:
\* both after the call, and the queue it returns
AfterSubscribe(tables, bus, args) ==
    LET q == Len(bus.queues) + 1
    IN [tables |-> TablesAfterSubscribe(tables, q, args),
        bus |-> [bus EXCEPT !.queues = Append(@, Queue(args))],
        queue |-> q]

\* the bus after the subscribe, unsubscribe and publish calls of one
\* operation: its tables, the part publish changes, the subscriber count
\* that was computed last and the envelope that was published last, if any
SetBusAndTables(tables, bus, count, message) ==
    /\ broadcast_subscribers' = tables.broadcast_subscribers
    /\ subscribers' = tables.subscribers
    /\ role_subscribers' = tables.role_subscribers
    /\ message_type_subscribers' = tables.message_type_subscribers
    /\ task_subscribers' = tables.task_subscribers
    /\ message_history' = bus.message_history
    /\ stats' = [stats EXCEPT !.messages_sent = bus.messages_sent,
                              !.subscribers_count = count]
    /\ queues' = bus.queues
    /\ published' = bus.published
    /\ message_handlers' = bus.message_handlers
    /\ last_publish' = message
    /\ UNCHANGED <<max_history_size, cleared_at>>

Subscribe(args) ==
    LET after == AfterSubscribe(TablesNow, BusNow, args)
    IN SetBusAndTables(after.tables, after.bus, CountIn(after.tables), NoMessage)

Unsubscribe(q) ==
    LET tables == TablesAfterUnsubscribe(TablesNow, q)
    IN SetBusAndTables(tables, BusNow, CountIn(tables), NoMessage)

\* what asyncio.Queue.get takes: the oldest item; QueueTakeNewest takes the
\* one put last
QueueTakeNewest(items) == [taken |-> items[Len(items)], rest |-> SubSeq(items, 1, Len(items) - 1)]

QueueTake(items) == [taken |-> Head(items), rest |-> Tail(items)]

\* await queue.get() by the holder of queue q, when an item is there
QueueGet(q) ==
    /\ queues[q].items # <<>>
    /\ LET got == QueueTake(queues[q].items)
       IN queues' = [queues EXCEPT ![q].items = got.rest,
                                   ![q].taken = Append(@, got.taken)]
    /\ last_publish' = NoMessage
    /\ UNCHANGED <<max_history_size, message_history, subscribers, role_subscribers,
                   message_type_subscribers, task_subscribers, broadcast_subscribers,
                   stats, published, cleared_at, message_handlers>>

\* get_message_history() with no filter: a copy of the history
GetMessageHistory == message_history

ClearHistory ==
    /\ message_history' = <<>>
    /\ cleared_at' = Len(published)
    /\ last_publish' = NoMessage
    /\ UNCHANGED <<max_history_size, subscribers, role_subscribers,
                   message_type_subscribers, task_subscribers, broadcast_subscribers,
                   stats, queues, published, message_handlers>>

\* BaseAgent.send_message: the envelope it builds
Envelope(bus, sender, message_type, content, recipient_role, recipient_id, priority, requires_response, in_response_to) ==
    AgentMessage(NewMessageId(Len(bus.published)), sender, recipient_role, recipient_id,
                 message_type, content, priority, requires_response, in_response_to)

SendMessage(sender, message_type, content, recipient_role, recipient_id, priority, requires_response, in_response_to) ==
    Publish(Envelope(BusNow, sender, message_type, content, recipient_role,
                     recipient_id, priority, requires_response, in_response_to))

\* an empty dict
EmptyDict == [key \in {} |-> None]

NoCoordination ==
    [called |-> FALSE, task_id |-> None, action |-> Action(None, None),
     approved |-> FALSE, modifications |-> EmptyDict]

NoCall == [op |-> None]

\* AgentSwarmCoordinator.__init__: enable_swarm and (settings.DEBUG_MODE or
\* settings.ENABLE_MULTI_AGENT_SWARM)
Construction(requested, debug_mode, enable_multi_agent_swarm) ==
    [enable_swarm |-> requested, DEBUG_MODE |-> debug_mode,
     ENABLE_MULTI_AGENT_SWARM |-> enable_multi_agent_swarm]

\* enable_swarm when the settings are not consulted
EffectiveSwarmAsRequested(c) == c.enable_swarm

EffectiveSwarm(c) == c.enable_swarm /\ (c.DEBUG_MODE \/ c.ENABLE_MULTI_AGENT_SWARM)

\* _message_queue is None
NoQueue == 0

\* BaseAgent.__init__: active and _message_queue
NewAgent == [active |-> FALSE, message_queue |-> NoQueue]

\* what no coordinate_... operation changes
coordinatorVars == <<enable_swarm, construction, agents, receiving>>

\* no coordinator takes part
InitNoSwarm ==
    /\ enable_swarm = FALSE
    /\ coordination = NoCoordination
    /\ construction = Construction(FALSE, FALSE, FALSE)
    /\ agents = [a \in {} |-> NewAgent]
    /\ call = NoCall
    /\ receiving = [a \in {} |-> [waiting |-> FALSE]]

DefaultMaxHistorySize == 1000

DefaultLoopDetectionWindow == 5

\* HybridPlanner.__init__, followed by planner.loop_detection_window = window
InitPlannerWindow(window) ==
    /\ affordances = <<>>
    /\ guards = <<>>
    /\ loop_detection_window = window
    /\ action_history = <<>>
    /\ fallback_actions = <<>>
    /\ result = NoResult
    /\ reconciled = NotReconciled

InitPlanner == InitPlannerWindow(DefaultLoopDetectionWindow)

(***************************************************************************)
(* AgentSwarmCoordinator.coordinate_action_execution, with the executor's  *)
(* propose_action_execution and the validator's validate_action            *)
(***************************************************************************)
UpperCase == "ABCDEFGHIJKLMNOPQRSTUVWXYZ"
LowerCase == "abcdefghijklmnopqrstuvwxyz"

RECURSIVE Lower(_)
\* str.lower()
Lower(s) ==
    IF s = "" THEN ""
    ELSE LET c == SubSeq(s, 1, 1)
             lowered == IF \E i \in 1..Len(UpperCase) : SubSeq(UpperCase, i, i) = c
                        THEN LET i == CHOOSE i \in 1..Len(UpperCase) :
                                          SubSeq(UpperCase, i, i) = c
                             IN SubSeq(LowerCase, i, i)
                        ELSE c
         IN lowered \o Lower(SubSeq(s, 2, Len(s)))

\* confidences are in hundredths: 0.9 and the validator's threshold 0.8
ProposalConfidence == 90
AutoApproveThreshold == 80

\* the agents AgentSwarmCoordinator.__init__ creates for its task and step
ExecutorAgent(task_id, step_id) == Agent("executor-" \o task_id, EXECUTOR, task_id, step_id)
ValidatorAgent(task_id, step_id) == Agent("validator-" \o task_id, VALIDATOR, task_id, step_id)

\* ActionProposalMessage: the fields validate_action reads
ActionProposal(action_type, risk_assessment, confidence) ==
    [action_type |-> action_type, risk_assessment |-> risk_assessment,
     confidence |-> confidence]

\* IsHighRiskAction when complete is not in high_risk_actions
IsHighRiskActionTerminateOnly(proposal) ==
    \/ Lower(proposal.action_type) \in {"terminate"}
    \/ proposal.risk_assessment = "high"

\* _is_high_risk_action
IsHighRiskAction(proposal) ==
    \/ Lower(proposal.action_type) \in {"terminate", "complete"}
    \/ proposal.risk_assessment = "high"

\* approved, when a confidence equal to the threshold does not suffice
ApprovedAboveThreshold(proposal) ==
    proposal.confidence > AutoApproveThreshold /\ ~IsHighRiskAction(proposal)

\* validate_action: approved
Approved(proposal) ==
    proposal.confidence >= AutoApproveThreshold /\ ~IsHighRiskAction(proposal)

\* MessageType of the decision validate_action publishes, when it is an
\* approval whatever was decided
DecisionTypeApproval(approved) == ACTION_APPROVAL

DecisionType(approved) == IF approved THEN ACTION_APPROVAL ELSE ACTION_REJECTION

\* ValidatorAgent.validate_action, as a function of the part of the bus
\* publish changes: that part after the call, the decision envelope and the
\* returned pair
AfterValidateAction(bus, validator, action_proposal) ==
    LET proposal == action_proposal.content
        is_high_risk == IsHighRiskAction(proposal)
        approved == Approved(proposal)
        decision ==
            Envelope(bus, validator, DecisionType(approved),
                     [approved |-> approved,
                      conditions |-> IF is_high_risk
                                     THEN <<"Monitor for unexpected page changes">>
                                     ELSE <<>>],
                     None, None, 9, FALSE, action_proposal.message_id)
    IN [bus |-> BusAfterPublish(bus, decision), decision |-> decision,
        approved |-> approved, modifications |-> EmptyDict]

\* the coordinator of task_id and step_id coordinates the execution of action
CoordinateActionExecution(task_id, step_id, action) ==
    IF ~enable_swarm
    THEN /\ coordination' = [called |-> TRUE, task_id |-> task_id, action |-> action,
                              approved |-> TRUE, modifications |-> EmptyDict]
         /\ call' = [op |-> "coordinate_action_execution", task_id |-> task_id]
         /\ UNCHANGED <<busVars, coordinatorVars>>
    ELSE LET \* propose_action_execution
             proposal_sent ==
                 Envelope(BusNow, ExecutorAgent(task_id, step_id), ACTION_PROPOSAL,
                          ActionProposal(action.action_type, "low", ProposalConfidence),
                          VALIDATOR, None, 8, TRUE, None)
             proposed == BusAfterPublish(BusNow, proposal_sent)
             \* the proposal the coordinator builds again for the validator,
             \* under the id propose_action_execution returned
             proposal_message ==
                 AgentMessage(proposal_sent.message_id, ExecutorAgent(task_id, step_id),
                              VALIDATOR, None, ACTION_PROPOSAL,
                              ActionProposal(action.action_type, "low", ProposalConfidence),
                              0, FALSE, None)
             validated == AfterValidateAction(proposed, ValidatorAgent(task_id, step_id),
                                              proposal_message)
         IN /\ SetBus(validated.bus, validated.decision)
            /\ coordination' = [called |-> TRUE, task_id |-> task_id, action |-> action,
                                 approved |-> validated.approved,
                                 modifications |-> validated.modifications]
            /\ call' = [op |-> "coordinate_action_execution", task_id |-> task_id]
            /\ UNCHANGED coordinatorVars

(***************************************************************************)
(* BaseAgent.start and stop, AgentSwarmCoordinator.start and stop.  None   *)
(* of them suspends: subscribe, unsubscribe and publish wait for nothing.  *)
(***************************************************************************)
PlannerAgent(task_id, step_id) == Agent("planner-" \o task_id, PLANNER, task_id, step_id)

\* the step of each task of the model
StepOf(task_id) == IF task_id = "t1" THEN "s1" ELSE "s2"

\* the agents AgentSwarmCoordinator.__init__ creates, in the order start
\* and stop go through them
SwarmAgents(task_id) ==
    << PlannerAgent(task_id, StepOf(task_id)), ExecutorAgent(task_id, StepOf(task_id)),
       ValidatorAgent(task_id, StepOf(task_id)) >>

AgentIdsOf(tasks) == {SwarmAgents(t)[i].agent_id : t \in tasks, i \in 1..3}

\* the timeout argument of receive_message: None by default, or a number
\* of seconds
NoTimeout == [given |-> FALSE, seconds |-> 0]
Timeout(seconds) == [given |-> TRUE, seconds |-> seconds]

\* no receive_message call of the agent is suspended
NotReceiving == [waiting |-> FALSE, timeout |-> NoTimeout, queue |-> NoQueue]

\* one coordinator per task of tasks, all constructed with c
InitCoordinators(tasks, c) ==
    /\ construction = c
    /\ enable_swarm = EffectiveSwarm(c)
    /\ coordination = NoCoordination
    /\ agents = [a \in AgentIdsOf(tasks) |-> NewAgent]
    /\ call = NoCall
    /\ receiving = [a \in AgentIdsOf(tasks) |-> NotReceiving]

\* the subscribe call of BaseAgent.start
StartArgs(agent) == SubscribeArgs(agent.agent_id, agent.role, None, agent.task_id, FALSE)

\* BaseAgent.start as a function of the tables, of the part of the bus
\* publish changes and of the agents
AfterStart(tables, bus, ags, agent) ==
    LET after == AfterSubscribe(tables, bus, StartArgs(agent))
    IN [tables |-> after.tables, bus |-> after.bus,
        agents |-> [ags EXCEPT ![agent.agent_id] =
                       [active |-> TRUE, message_queue |-> after.queue]]]

\* BaseAgent.stop when the queue stays registered
AfterStopKeepQueue(tables, ags, agent) ==
    [tables |-> tables, agents |-> [ags EXCEPT ![agent.agent_id].active = FALSE],
     unsubscribed |-> FALSE]

\* BaseAgent.stop: the queue object is kept in _message_queue
AfterStop(tables, ags, agent) ==
    LET q == ags[agent.agent_id].message_queue
    IN [tables |-> IF q # NoQueue THEN TablesAfterUnsubscribe(tables, q) ELSE tables,
        agents |-> [ags EXCEPT ![agent.agent_id].active = FALSE],
        unsubscribed |-> q # NoQueue]

AgentStart(agent) ==
    LET after == AfterStart(TablesNow, BusNow, agents, agent)
    IN /\ SetBusAndTables(after.tables, after.bus, CountIn(after.tables), NoMessage)
       /\ agents' = after.agents
       /\ call' = [op |-> "agent.start", agent_id |-> agent.agent_id]

\* unsubscribe recounts the subscribers; without it stop leaves the bus alone
AgentStop(agent) ==
    LET after == AfterStop(TablesNow, agents, agent)
    IN /\ IF after.unsubscribed
          THEN SetBusAndTables(after.tables, BusNow, CountIn(after.tables), NoMessage)
          ELSE UNCHANGED busVars
       /\ agents' = after.agents
       /\ call' = [op |-> "agent.stop", agent_id |-> agent.agent_id]

\* StatusUpdateMessage of AgentSwarmCoordinator.start
SwarmStarted(task_id) ==
    [status |-> "swarm_started", progress |-> 0,
     metadata |-> [task_id |-> task_id, step_id |-> StepOf(task_id)]]

\* AgentSwarmCoordinator.start
CoordinatorStart(task_id) ==
    /\ call' = [op |-> "start", task_id |-> task_id]
    /\ IF ~enable_swarm
       THEN UNCHANGED <<busVars, agents>>
       ELSE LET swarm == SwarmAgents(task_id)
                planner == AfterStart(TablesNow, BusNow, agents, swarm[1])
                executor == AfterStart(planner.tables, planner.bus, planner.agents, swarm[2])
                validator == AfterStart(executor.tables, executor.bus, executor.agents, swarm[3])
                status == Envelope(validator.bus, swarm[1], STATUS_UPDATE,
                                   SwarmStarted(task_id), None, None, 0, FALSE, None)
            IN /\ SetBusAndTables(validator.tables,
                                  BusAfterPublishIn(validator.tables, validator.bus, status),
                                  CountIn(validator.tables), status)
               /\ agents' = validator.agents

\* AgentSwarmCoordinator.stop
CoordinatorStop(task_id) ==
    /\ call' = [op |-> "stop", task_id |-> task_id]
    /\ IF ~enable_swarm
       THEN UNCHANGED <<busVars, agents>>
       ELSE LET swarm == SwarmAgents(task_id)
                planner == AfterStop(TablesNow, agents, swarm[1])
                executor == AfterStop(planner.tables, planner.agents, swarm[2])
                validator == AfterStop(executor.tables, executor.agents, swarm[3])
                unsubscribed == planner.unsubscribed \/ executor.unsubscribed
                                    \/ validator.unsubscribed
            IN /\ IF unsubscribed
                  THEN SetBusAndTables(validator.tables, BusNow,
                                       CountIn(validator.tables), NoMessage)
                  ELSE UNCHANGED busVars
               /\ agents' = validator.agents

(***************************************************************************)
(* PlannerAgent.create_plan, ValidatorAgent.validate_plan and the          *)
(* coordinator operations coordinate_planning, request_consensus and       *)
(* get_message_history                                                     *)
(***************************************************************************)
\* str(uuid.uuid4()) outside send_message: an id no envelope carries; n
\* envelopes have been published so far
NewUuid(n) == "uuid-" \o ToString(n)

\* AssessRisk when ten actions are already high and five already medium
AssessRiskFromBoundary(actions) ==
    IF Len(actions) >= 10 THEN "high"
    ELSE IF Len(actions) >= 5 THEN "medium"
    ELSE "low"

\* _assess_risk
AssessRisk(actions) ==
    IF Len(actions) > 10 THEN "high"
    ELSE IF Len(actions) > 5 THEN "medium"
    ELSE "low"

\* PlanMessage: the fields validate_plan reads
PlanOf(actions) ==
    [steps |-> [i \in DOMAIN actions |-> [action_type |-> actions[i].action_type]],
     risk_level |-> AssessRisk(actions),
     alternatives |-> IF AssessRisk(actions) = "high"
                      THEN <<"Skip high-risk actions", "Request human intervention">>
                      ELSE <<>>]

\* ThoughtMessage of create_plan
ThoughtOf(actions) == [thought |-> Len(actions), confidence |-> 80]

\* create_plan that sends the plan before the thought
AfterCreatePlanPlanFirst(bus, planner, actions) ==
    LET plan_sent == Envelope(bus, planner, PLAN, PlanOf(actions), VALIDATOR, None,
                              5, FALSE, None)
        planned == BusAfterPublish(bus, plan_sent)
        thought == Envelope(planned, planner, THOUGHT, ThoughtOf(actions), None, None,
                            0, FALSE, None)
    IN [bus |-> BusAfterPublish(planned, thought), actions |-> actions,
        plan |-> PlanOf(actions), last |-> thought]

\* PlannerAgent.create_plan, as a function of the part of the bus publish
\* changes: that part after the call, the returned pair and the envelope
\* published last
AfterCreatePlan(bus, planner, actions) ==
    LET thought == Envelope(bus, planner, THOUGHT, ThoughtOf(actions), None, None,
                            0, FALSE, None)
        thought_sent == BusAfterPublish(bus, thought)
        plan_sent == Envelope(thought_sent, planner, PLAN, PlanOf(actions), VALIDATOR,
                              None, 5, FALSE, None)
    IN [bus |-> BusAfterPublish(thought_sent, plan_sent), actions |-> actions,
        plan |-> PlanOf(actions), last |-> plan_sent]

\* is_valid of validate_plan when both conditions are required
IsValidPlanBoth(plan) == plan.risk_level # "high" /\ Len(plan.steps) <= 10

\* validate_plan: is_valid
IsValidPlan(plan) == plan.risk_level # "high" \/ Len(plan.steps) <= 10

\* ValidatorAgent.validate_plan, as a function of the part of the bus
\* publish changes: that part after the call, the returned boolean and the
\* VALIDATION_RESULT envelope
AfterValidatePlan(bus, validator, plan_message) ==
    LET plan == plan_message.content
        request == Envelope(bus, validator, VALIDATION_REQUEST,
                            [validation_type |-> "plan", subject |-> plan],
                            None, None, 0, FALSE, None)
        requested == BusAfterPublish(bus, request)
        is_valid == IsValidPlan(plan)
        validation ==
            Envelope(requested, validator, VALIDATION_RESULT,
                     [valid |-> is_valid, validation_type |-> "plan",
                      confidence |-> 85,
                      recommendations |-> IF plan.risk_level = "high"
                                          THEN <<"Proceed with caution">> ELSE <<>>],
                     None, None, 0, FALSE, plan_message.message_id)
    IN [bus |-> BusAfterPublish(requested, validation), is_valid |-> is_valid,
        last |-> validation]

\* AgentSwarmCoordinator.coordinate_planning
CoordinatePlanning(task_id, actions) ==
    IF ~enable_swarm
    THEN /\ call' = [op |-> "coordinate_planning", task_id |-> task_id,
                     actions |-> actions,
                     returned |-> [actions |-> actions, approved |-> TRUE]]
         /\ UNCHANGED busVars
    ELSE LET swarm == SwarmAgents(task_id)
             created == AfterCreatePlan(BusNow, swarm[1], actions)
             \* the plan message the coordinator builds again, under a new id
             plan_message ==
                 AgentMessage(NewUuid(Len(created.bus.published)), swarm[1], VALIDATOR,
                              None, PLAN, created.plan, 0, FALSE, None)
             validated == AfterValidatePlan(created.bus, swarm[3], plan_message)
         IN /\ SetBus(validated.bus, validated.last)
            /\ call' = [op |-> "coordinate_planning", task_id |-> task_id,
                        actions |-> actions,
                        returned |-> [actions |-> created.actions,
                                      approved |-> validated.is_valid]]

\* an option is a string here; the last option of the list
FirstOptionLast(options) == IF options # <<>> THEN options[Len(options)] ELSE None

\* options[0] if options else None
FirstOption(options) == IF options # <<>> THEN options[1] ELSE None

\* AgentSwarmCoordinator.request_consensus
RequestConsensus(task_id, decision_topic, options) ==
    /\ call' = [op |-> "request_consensus", task_id |-> task_id, options |-> options,
                returned |-> FirstOption(options)]
    /\ IF ~enable_swarm \/ Len(options) = 0
       THEN UNCHANGED busVars
       ELSE LET swarm == SwarmAgents(task_id)
            IN SendMessage(swarm[1], CONSENSUS_REQUEST,
                           [decision_topic |-> decision_topic, options |-> options,
                            voting_agents |-> [i \in 1..3 |-> swarm[i].agent_id]],
                           None, None, 10, FALSE, None)

\* MessageFilter; None is a wildcard.  A datetime is a number of ticks, and
\* the optional ones and min_priority are [given, value]
MessageFilter(sender_role, recipient_role, message_type, task_id, step_id, from_timestamp, to_timestamp, min_priority) ==
    [sender_role |-> sender_role, recipient_role |-> recipient_role,
     message_type |-> message_type, task_id |-> task_id, step_id |-> step_id,
     from_timestamp |-> from_timestamp, to_timestamp |-> to_timestamp,
     min_priority |-> min_priority]

\* min_priority: None, or a number
NoPriority == [given |-> FALSE, value |-> 0]

\* from_timestamp, to_timestamp: None, or a datetime
NoTime == [given |-> FALSE, value |-> 0]

\* PassesFilter when an envelope stamped exactly to_timestamp is left out
PassesFilterExclusiveEnd(msg, filter) ==
    /\ ~(Truthy(filter.sender_role) /\ msg.sender_role # filter.sender_role)
    /\ ~(Truthy(filter.recipient_role) /\ msg.recipient_role # filter.recipient_role)
    /\ ~(Truthy(filter.message_type) /\ msg.message_type # filter.message_type)
    /\ ~(Truthy(filter.task_id) /\ msg.task_id # filter.task_id)
    /\ ~(Truthy(filter.step_id) /\ msg.step_id # filter.step_id)
    /\ ~(filter.from_timestamp.given /\ msg.timestamp < filter.from_timestamp.value)
    /\ ~(filter.to_timestamp.given /\ msg.timestamp >= filter.to_timestamp.value)
    /\ ~(filter.min_priority.given /\ msg.priority < filter.min_priority.value)

\* the envelope passes every criterion of the filter (the loop body of
\* get_message_history: a criterion that is falsy is skipped, min_priority
\* is skipped only when it is None; a datetime is never falsy)
PassesFilter(msg, filter) ==
    /\ ~(Truthy(filter.sender_role) /\ msg.sender_role # filter.sender_role)
    /\ ~(Truthy(filter.recipient_role) /\ msg.recipient_role # filter.recipient_role)
    /\ ~(Truthy(filter.message_type) /\ msg.message_type # filter.message_type)
    /\ ~(Truthy(filter.task_id) /\ msg.task_id # filter.task_id)
    /\ ~(Truthy(filter.step_id) /\ msg.step_id # filter.step_id)
    /\ ~(filter.from_timestamp.given /\ msg.timestamp < filter.from_timestamp.value)
    /\ ~(filter.to_timestamp.given /\ msg.timestamp > filter.to_timestamp.value)
    /\ ~(filter.min_priority.given /\ msg.priority < filter.min_priority.value)

\* AgentMessageBus.get_message_history(filter)
GetMessageHistoryFiltered(filter) ==
    SelectSeq(message_history, LAMBDA msg : PassesFilter(msg, filter))

\* get_message_history with its optional argument: NoValue for None, or
\* Value(filter).  What it returns is a list of its own in both branches
\* (list.copy(), and the list it fills), never the list the bus holds.
GetMessageHistoryOf(filter) ==
    [list |-> IF filter = NoValue THEN message_history
              ELSE GetMessageHistoryFiltered(filter[1]),
     is_history |-> FALSE]

\* the parameters AgentMessageBus.get_message_history can be called with
GetMessageHistoryParameters == {"filter"}

\* AgentSwarmCoordinator.get_message_history: it calls the bus method with
\* the keyword argument task_id.  The method has no such parameter, so the
\* call raises TypeError before the method runs.
CoordinatorGetMessageHistory(task_id) ==
    /\ "task_id" \notin GetMessageHistoryParameters
    /\ call' = [op |-> "get_message_history", task_id |-> task_id,
                raised |-> "TypeError"]
    /\ UNCHANGED busVars

(***************************************************************************)
(* SpecGate: a planner that is configured with guards and affordances and  *)
(* validates batches of candidate actions.  Each guard and affordance of   *)
(* the pools is registered at most once, in any order.  Loop detection is  *)
(* switched off here (loop_detection_window = 0); SpecLoop covers it.      *)
(***************************************************************************)
MaxActions == 2

ActionPool == <<Action(CLICK, "submit_btn"), Action(TERMINATE, None)>>

\* the lists of at most n actions over a pool (a sequence of actions)
RECURSIVE ListsOver(_, _)
ListsOver(pool, n) ==
    IF n = 0 THEN {<<>>}
    ELSE LET shorter == ListsOver(pool, n - 1)
         IN shorter \cup {Append(l, pool[k]) : l \in shorter, k \in DOMAIN pool}

GateActionLists == ListsOver(ActionPool, MaxActions)

InitGate ==
    /\ InitPlannerWindow(0)
    /\ InitBus(DefaultMaxHistorySize)
    /\ InitNoSwarm

GateRegisterGuard ==
    \E k \in DOMAIN GuardPool :
        /\ \A j \in DOMAIN guards : guards[j] # GuardPool[k]
        /\ RegisterGuard(GuardPool[k])
        /\ UNCHANGED <<busVars, swarmVars>>

GateRegisterAffordance ==
    \E k \in DOMAIN AffordancePool :
        /\ \A j \in DOMAIN affordances : affordances[j] # AffordancePool[k]
        /\ RegisterAffordance(AffordancePool[k])
        /\ UNCHANGED <<busVars, swarmVars>>

GateValidate ==
    \E actions \in GateActionLists, e \in DOMAIN EnvPool :
        /\ ValidateAndFilterActions(actions, EnvPool[e].page, EnvPool[e].url)
        /\ UNCHANGED <<busVars, swarmVars>>

\* clear() on a planner that shares no state with a bus or a coordinator
PlannerClear == Clear /\ UNCHANGED <<busVars, swarmVars>>

NextGate ==
    \/ GateRegisterGuard
    \/ GateRegisterAffordance
    \/ GateValidate
    \/ PlannerClear

vars == <<plannerVars, busVars, swarmVars>>

SpecGate == InitGate /\ [][NextGate]_vars

(***************************************************************************)
(* Claims about validate_and_filter_actions (checked under SpecGate)       *)
(***************************************************************************)
\* the registered guards that are active for the call's snapshot and URL and
\* list the type of the action at input position i as blocked
BlockingGuardsOf(i) ==
    {k \in DOMAIN guards :
        /\ \A j \in DOMAIN guards[k].predicates :
              PredicateEvaluate(guards[k].predicates[j], result.page, result.url)
        /\ result.actions[i].action_type \in Range(guards[k].action_types_blocked)}

\* input position i went to filtered_actions / to rejected_actions with reason r
InFiltered(i) ==
    \E f \in DOMAIN result.filtered_actions :
        result.filtered_from[f] = i /\ result.filtered_actions[f] = result.actions[i]
InRejectedWith(i, r) ==
    \E f \in DOMAIN result.rejected_actions :
        result.rejected_from[f] = i /\ result.rejected_actions[f] = <<result.actions[i], r>>
InRejected(i) ==
    \E f \in DOMAIN result.rejected_actions :
        result.rejected_from[f] = i /\ result.rejected_actions[f][1] = result.actions[i]

\* C1: an action whose type an active guard blocks is rejected, never
\* filtered, with the reason of the first such guard in registration order
\* (its message, or the default naming the guard), and no affordance
\* precondition is evaluated for it.
C1_GuardRejects ==
    result.called =>
        \A i \in DOMAIN result.actions :
            LET blocking == BlockingGuardsOf(i) IN
            blocking # {} =>
                LET first == CHOOSE k \in blocking : \A j \in blocking : k <= j
                    reason == IF guards[first].message \notin {None, ""}
                              THEN guards[first].message
                              ELSE "Guard '" \o guards[first].name \o "' blocked action"
                IN /\ InRejectedWith(i, reason)
                   /\ ~InFiltered(i)
                   /\ result.outcomes[i].evaluated = <<>>

\* C1 witness: two guards with different reasons block the same action, for
\* which a matching affordance is registered
C1_Witness ==
    /\ result.called
    /\ \E i \in DOMAIN result.actions :
          /\ Cardinality(BlockingGuardsOf(i)) = 2
          /\ MatchingAffordances(result.actions[i]) # <<>>
          /\ InRejectedWith(i, "Guard 'on_example' blocked action")

\* the affordances that match the action at input position i
MatchesOf(i) ==
    {k \in DOMAIN affordances :
        /\ affordances[k].action_type = result.actions[i].action_type
        /\ affordances[k].element_id \in {None, result.actions[i].element_id}}

PreconditionsHold(k) ==
    \A j \in DOMAIN affordances[k].preconditions :
        PredicateEvaluate(affordances[k].preconditions[j], result.page, result.url)

\* the match of highest priority, the first registered among equals
Authoritative(i) ==
    CHOOSE k \in MatchesOf(i) :
        \A j \in MatchesOf(i) :
            \/ affordances[k].priority > affordances[j].priority
            \/ affordances[k].priority = affordances[j].priority /\ k <= j

\* C2: for an action that survived the guards and has matching affordances,
\* the highest-priority match (first registered among equal priorities)
\* decides alone: accepted iff its preconditions all hold.
C2_HighestPriorityDecides ==
    result.called =>
        \A i \in DOMAIN result.actions :
            (BlockingGuardsOf(i) = {} /\ MatchesOf(i) # {}) =>
                /\ InFiltered(i) <=> PreconditionsHold(Authoritative(i))
                /\ InRejected(i) <=> ~PreconditionsHold(Authoritative(i))
                /\ result.outcomes[i].evaluated = <<Authoritative(i)>>

\* C2 witness: an accepted action with two matches of different priority
\* where the lower one fails, and a decided action with two matches of equal
\* priority that disagree
C2_Witness ==
    /\ result.called
    /\ \E i \in DOMAIN result.actions :
          /\ BlockingGuardsOf(i) = {}
          /\ \E k \in MatchesOf(i) :
                /\ affordances[k].priority < affordances[Authoritative(i)].priority
                /\ ~PreconditionsHold(k)
                /\ InFiltered(i)

C2_WitnessTie ==
    /\ result.called
    /\ \E i \in DOMAIN result.actions :
          /\ BlockingGuardsOf(i) = {}
          /\ \E k \in MatchesOf(i) :
                /\ k # Authoritative(i)
                /\ affordances[k].priority = affordances[Authoritative(i)].priority
                /\ PreconditionsHold(k)
                /\ InRejected(i)

StrictlyIncreasing(s) == \A a, b \in DOMAIN s : a < b => s[a] < s[b]

\* C3: valid iff filtered_actions is non-empty; filtered_actions and
\* rejected_actions are subsequences of the input in input order; every input
\* position is in exactly one of them.
C3_ResultPartition ==
    result.called =>
        /\ result.valid <=> result.filtered_actions # <<>>
        /\ Len(result.filtered_from) = Len(result.filtered_actions)
        /\ Len(result.rejected_from) = Len(result.rejected_actions)
        /\ StrictlyIncreasing(result.filtered_from)
        /\ StrictlyIncreasing(result.rejected_from)
        /\ \A f \in DOMAIN result.filtered_actions :
              /\ result.filtered_from[f] \in DOMAIN result.actions
              /\ result.filtered_actions[f] = result.actions[result.filtered_from[f]]
        /\ \A f \in DOMAIN result.rejected_actions :
              /\ result.rejected_from[f] \in DOMAIN result.actions
              /\ result.rejected_actions[f][1] = result.actions[result.rejected_from[f]]
        /\ \A i \in DOMAIN result.actions : InFiltered(i) <=> ~InRejected(i)
        /\ Len(result.filtered_actions) + Len(result.rejected_actions) = Len(result.actions)

\* C3 witness: a batch of which one action is accepted and one is rejected by
\* a failing affordance, and a batch rejected whole
C3_Witness ==
    /\ result.called
    /\ Len(result.filtered_actions) = 1
    /\ Len(result.rejected_actions) = 1
    /\ result.rejected_actions[1][2] = "Submit button is not visible"

(***************************************************************************)
(* load_from_plan_config and the fallback blueprints                       *)
(***************************************************************************)
\* SymbolicActionBlueprint: the fields _action_from_blueprint reads for the
\* action types below (option is None or a non-empty dict, here a string)
Blueprint(action_type, element_id, text, option) ==
    [action_type |-> action_type, element_id |-> element_id,
     text |-> text, option |-> option]

\* _action_from_blueprint: <<action>>, or <<>> for the None it returns when
\* the conversion raises
ActionFromBlueprint(blueprint) ==
    IF blueprint.action_type = CLICK
    THEN IF ~Truthy(blueprint.element_id) THEN <<>>
         ELSE <<Action(CLICK, blueprint.element_id)>>
    ELSE IF blueprint.action_type = INPUT_TEXT
    THEN IF ~Truthy(blueprint.element_id) \/ blueprint.text = None THEN <<>>
         ELSE <<Action(INPUT_TEXT, blueprint.element_id)>>
    ELSE IF blueprint.action_type = SELECT_OPTION
    THEN IF ~Truthy(blueprint.element_id) \/ ~Truthy(blueprint.option) THEN <<>>
         ELSE <<Action(SELECT_OPTION, blueprint.element_id)>>
    ELSE <<Action(blueprint.action_type, None)>>

RECURSIVE FallbackFromBlueprints(_)
FallbackFromBlueprints(blueprints) ==
    IF blueprints = <<>> THEN <<>>
    ELSE ActionFromBlueprint(Head(blueprints)) \o FallbackFromBlueprints(Tail(blueprints))

\* SymbolicPlanConfig; loop_guard_window is NoValue (None) or Value(n)
PlanConfig(affs, grds, fallback, loop_guard_window) ==
    [affordances |-> affs, guards |-> grds, fallback_actions |-> fallback,
     loop_guard_window |-> loop_guard_window]

LoadFromPlanConfig(plan_config) ==
    /\ affordances' = plan_config.affordances
    /\ guards' = plan_config.guards
    /\ action_history' = <<>>
    /\ loop_detection_window' =
           IF plan_config.loop_guard_window # NoValue /\ plan_config.loop_guard_window[1] # 0
           THEN plan_config.loop_guard_window[1]
           ELSE loop_detection_window
    /\ fallback_actions' = FallbackFromBlueprints(plan_config.fallback_actions)
    /\ result' = NoResult
    /\ reconciled' = NotReconciled

(***************************************************************************)
(* SpecReconcile: a planner that is loaded from plan configurations,       *)
(* validates batches and reconciles validation results with fallbacks.     *)
(***************************************************************************)
PlanConfigPool ==
    << PlanConfig(<<>>, <<GuardPool[1]>>, <<>>, NoValue),
       PlanConfig(<<AffordancePool[1]>>, <<>>,
                  <<Blueprint(CLICK, None, None, None),
                    Blueprint(TERMINATE, None, None, None)>>, Value(1)),
       PlanConfig(<<>>, <<>>,
                  <<Blueprint(CLICK, "", None, None),
                    Blueprint(INPUT_TEXT, "email_input", None, None),
                    Blueprint(SELECT_OPTION, "country", None, None)>>, Value(0)),
       PlanConfig(<<>>, <<GuardPool[2]>>,
                  <<Blueprint(WAIT, None, None, None),
                    Blueprint(INPUT_TEXT, "email_input", "a@b.c", None),
                    Blueprint(SELECT_OPTION, "country", None, "FR")>>, NoValue) >>

\* a PlanValidationResult a caller may hold (the fields reconcile reads)
PlanValidationResult(valid, filtered_actions) ==
    [valid |-> valid, filtered_actions |-> filtered_actions]

ValidationResultPool ==
    {PlanValidationResult(valid, filtered) :
        valid \in BOOLEAN, filtered \in {<<>>, <<Action(CLICK, "submit_btn")>>}}

FallbackPool == {NoneList, List(<<>>), List(<<Action(COMPLETE, None)>>)}

\* load_from_plan_config returns None and has no raise of its own: what
\* _action_from_blueprint raises, it catches
ReconcileLoad ==
    \E k \in DOMAIN PlanConfigPool :
        /\ LoadFromPlanConfig(PlanConfigPool[k])
        /\ call' = [op |-> "load_from_plan_config", plan_config |-> PlanConfigPool[k],
                    returned |-> None, raised |-> None]
        /\ UNCHANGED <<busVars, coordinatorVars, coordination>>

ReconcileValidate ==
    \E actions \in GateActionLists, e \in DOMAIN EnvPool :
        /\ ValidateAndFilterActions(actions, EnvPool[e].page, EnvPool[e].url)
        /\ UNCHANGED <<busVars, swarmVars>>

\* reconcile the result of the validation that has just been made
ReconcileLast ==
    /\ result.called
    /\ \E fallback \in FallbackPool : Reconcile(result, fallback)
    /\ UNCHANGED <<busVars, swarmVars>>

\* reconcile a result the caller built
ReconcileGiven ==
    \E validation_result \in ValidationResultPool, fallback \in FallbackPool :
        /\ Reconcile(validation_result, fallback)
        /\ UNCHANGED <<busVars, swarmVars>>

NextReconcile ==
    \/ ReconcileLoad
    \/ ReconcileValidate
    \/ ReconcileLast
    \/ ReconcileGiven
    \/ PlannerClear

SpecReconcile == InitGate /\ [][NextReconcile]_vars

UsesValidated == reconciled.valid /\ reconciled.filtered_actions # <<>>
UsesSupplied == ~UsesValidated /\ reconciled.fallback.given /\ reconciled.fallback.list # <<>>
UsesConfigured == ~UsesValidated /\ ~UsesSupplied /\ fallback_actions # <<>>

\* C4: reconcile_with_fallback returns the result's filtered_actions when
\* the result is valid and they are non-empty; otherwise the caller-supplied
\* fallback if it is non-empty; otherwise the planner-configured fallback
\* list if it is non-empty; otherwise the empty list.
C4_ReconcileOrder ==
    reconciled.called =>
        /\ UsesValidated => reconciled.returned = reconciled.filtered_actions
        /\ UsesSupplied => reconciled.returned = reconciled.fallback.list
        /\ UsesConfigured => reconciled.returned = fallback_actions
        /\ (~UsesValidated /\ ~UsesSupplied /\ ~UsesConfigured) => reconciled.returned = <<>>

\* a failed validation reconciled with a non-empty caller-supplied fallback
\* while the planner holds a different configured fallback list
C4_Witness ==
    /\ reconciled.called
    /\ UsesSupplied
    /\ fallback_actions # <<>>
    /\ fallback_actions # reconciled.fallback.list
    /\ reconciled.returned = reconciled.fallback.list

\* the other three branches
C4_WitnessValidated == reconciled.called /\ UsesValidated /\ fallback_actions # <<>>
C4_WitnessConfigured ==
    reconciled.called /\ UsesConfigured /\ reconciled.fallback.given
        /\ reconciled.returned = fallback_actions
C4_WitnessEmpty ==
    /\ reconciled.called /\ ~UsesValidated /\ ~UsesSupplied /\ ~UsesConfigured
    /\ reconciled.valid /\ reconciled.returned = <<>>

(***************************************************************************)
(* SpecLoop: a planner whose loop_detection_window has been set to a       *)
(* positive value and that validates one batch after another.              *)
(***************************************************************************)
LoopWindows == {1, 2}

\* "" is an element id that is falsy, "global" is the id _detect_loops
\* substitutes for a falsy one
LoopActionPool ==
    << Action(CLICK, "btn1"), Action(INPUT_TEXT, "btn1"),
       Action(CLICK, ""), Action(CLICK, "global") >>

LoopActionLists == ListsOver(LoopActionPool, MaxActions)

LoopEnvs == {EnvPool[1]}

InitLoop ==
    /\ \E window \in LoopWindows : InitPlannerWindow(window)
    /\ InitBus(DefaultMaxHistorySize)
    /\ InitNoSwarm

LoopValidate ==
    \E actions \in LoopActionLists, env \in LoopEnvs :
        /\ ValidateAndFilterActions(actions, env.page, env.url)
        /\ UNCHANGED <<busVars, swarmVars>>

\* the guard that blocks clicks on example.com, registered once
LoopRegisterGuard ==
    /\ guards = <<>>
    /\ RegisterGuard(GuardPool[2])
    /\ UNCHANGED <<busVars, swarmVars>>

NextLoop ==
    \/ LoopValidate
    \/ LoopRegisterGuard
    \/ PlannerClear

SpecLoop == InitLoop /\ [][NextLoop]_vars

\* a step from one validation call to the next, the first made on an empty
\* history, each accepting exactly loop_detection_window actions
TwoWindowCalls ==
    /\ result.called /\ result'.called
    /\ loop_detection_window > 0
    /\ result.history_before = <<>>
    /\ Len(result.filtered_actions) = loop_detection_window
    /\ Len(result'.filtered_actions) = loop_detection_window

\* the two accepted sequences have the same element and the same action
\* type at every position
SameSequence ==
    \A i \in 1..loop_detection_window :
        /\ result'.filtered_actions[i].element_id = result.filtered_actions[i].element_id
        /\ result'.filtered_actions[i].action_type = result.filtered_actions[i].action_type

\* the two accepted sequences leave the same entries in action_history
SameHistoryKeys ==
    HistoryKeys(result'.filtered_actions) = HistoryKeys(result.filtered_actions)

LoopWarned(r) == r.loop_warning # None /\ r.loop_warning \in Range(r.warnings)

\* every action the loop over the input accepted is in filtered_actions
KeepsAccepted(r) ==
    /\ Len(r.filtered_actions) = Cardinality({i \in DOMAIN r.outcomes : r.outcomes[i].accepted})
    /\ \A n \in DOMAIN r.filtered_from : r.filtered_actions[n] = r.actions[r.filtered_from[n]]

\* C5: with a window w > 0 and an empty history, two successive calls that
\* accept the same sequence of w actions give no loop warning on the first
\* call and one on the second; if the second sequence differs from the first
\* in the element or the type at some position the second call gives no loop
\* warning; the warning removes no action from filtered_actions.
C5_LoopWarning ==
    [][TwoWindowCalls =>
          /\ ~LoopWarned(result)
          /\ SameSequence => LoopWarned(result')
          /\ ~SameSequence => ~LoopWarned(result')
          /\ KeepsAccepted(result')]_vars

\* C5, as the code computes it: the second call warns exactly when the two
\* sequences leave the same (element id or "global", action type) entries
\* in the history, and the warning removes no action.
C5_WarningIffSameKeys ==
    [][TwoWindowCalls =>
          /\ ~LoopWarned(result)
          /\ SameSequence => LoopWarned(result')
          /\ LoopWarned(result') <=> SameHistoryKeys
          /\ KeepsAccepted(result')]_vars

\* the second of two calls that accepted the same sequence has warned
C5_Witness ==
    /\ result.called
    /\ loop_detection_window > 0
    /\ Len(result.history_before) = loop_detection_window
    /\ result.history_before = HistoryKeys(result.filtered_actions)
    /\ LoopWarned(result)
    /\ Len(result.filtered_actions) < Len(result.actions)

(***************************************************************************)
(* SpecBus: agents and observers that subscribe to one bus, publish on it  *)
(* through send_message and take envelopes from their queues, in any       *)
(* interleaving.  The queues do not depend on each other, so the           *)
(* subscriptions of the pool are made in pool order, each at most once and *)
(* at any time.                                                            *)
(***************************************************************************)
MaxPublish == 3

\* max_history_size of the buses of SpecBus and of SpecHistory
BusSizes == {2, DefaultMaxHistorySize}
HistorySizes == {0, 1, 2}

ExecutorT1 == ExecutorAgent("t1", "s1")
ValidatorT1 == ValidatorAgent("t1", "s1")
Monitor == Agent("monitor", COORDINATOR, None, None)

\* send_message calls: [sender, message_type, recipient_role, recipient_id]
Send(sender, message_type, recipient_role, recipient_id) ==
    [sender |-> sender, message_type |-> message_type,
     recipient_role |-> recipient_role, recipient_id |-> recipient_id]

SendPool ==
    << Send(ExecutorT1, ACTION_PROPOSAL, VALIDATOR, None),
       Send(ValidatorT1, ACTION_APPROVAL, EXECUTOR, "executor-t1"),
       Send(Monitor, STATUS_UPDATE, None, None) >>

SubscriptionPool ==
    << SubscribeArgs("observer", COORDINATOR, None, None, TRUE),
       SubscribeArgs("executor-t1", EXECUTOR, None, "t1", FALSE),
       SubscribeArgs(None, None, ACTION_PROPOSAL, None, FALSE),
       SubscribeArgs(None, None, None, None, FALSE) >>

InitBusSpec ==
    /\ \E size \in BusSizes : InitBus(size)
    /\ InitPlanner
    /\ InitNoSwarm

\* the subscriptions made so far are earlier ones of the pool
NotYetSubscribed(k) ==
    \A q \in DOMAIN queues : \E j \in 1..(k - 1) : queues[q].args = SubscriptionPool[j]

BusSubscribe ==
    \E k \in DOMAIN SubscriptionPool :
        /\ NotYetSubscribed(k)
        /\ Subscribe(SubscriptionPool[k])
        /\ UNCHANGED <<plannerVars, swarmVars>>

BusPublish ==
    /\ Len(published) < MaxPublish
    /\ \E k \in DOMAIN SendPool :
          LET send == SendPool[k]
          IN SendMessage(send.sender, send.message_type, [text |-> "payload"],
                         send.recipient_role, send.recipient_id, 0, FALSE, None)
    /\ UNCHANGED <<plannerVars, swarmVars>>

BusGet ==
    \E q \in DOMAIN queues :
        /\ QueueGet(q)
        /\ UNCHANGED <<plannerVars, swarmVars>>

NextBus ==
    \/ BusSubscribe
    \/ BusPublish
    \/ BusGet

SpecBus == InitBusSpec /\ [][NextBus]_vars

(***************************************************************************)
(* Claims about delivery (checked under SpecBus)                           *)
(***************************************************************************)
RECURSIVE Occurrences(_, _)
\* how many entries of a list of envelopes carry the id of message
Occurrences(message, list) ==
    IF list = <<>> THEN 0
    ELSE (IF Head(list).message_id = message.message_id THEN 1 ELSE 0)
             + Occurrences(message, Tail(list))

\* queue q is registered as broadcast, or under the recipient id, the
\* recipient role, the message type or the task id of message
RegisteredFor(q, message) ==
    \/ q \in Range(broadcast_subscribers)
    \/ q \in Range(TableGet(subscribers, message.recipient_id))
    \/ q \in Range(TableGet(role_subscribers, message.recipient_role))
    \/ q \in Range(TableGet(message_type_subscribers, message.message_type))
    \/ q \in Range(TableGet(task_subscribers, message.task_id))

\* the number of tables in which q is registered under a key of message
MatchingKeys(q, message) ==
    Cardinality({n \in 1..5 : q \in Range(DeliveryLists(message)[n])})

InNoTable(q) ==
    /\ q \notin Range(broadcast_subscribers)
    /\ \A table \in {subscribers, role_subscribers, message_type_subscribers,
                     task_subscribers} :
          \A key \in DOMAIN table : q \notin Range(table[key])

\* C8: one publish enqueues the envelope exactly once on every queue that is
\* registered as broadcast or under the envelope's recipient id, recipient
\* role, message type or task id, however many of these keys match, and on
\* no other queue; a queue subscribed with no dimension receives nothing.
C8_DeliveredOnce ==
    /\ last_publish # NoMessage =>
          \A q \in DOMAIN queues :
              Occurrences(last_publish, queues[q].items \o queues[q].taken)
                  = IF RegisteredFor(q, last_publish) THEN 1 ELSE 0
    /\ \A q \in DOMAIN queues :
          (queues[q].args = SubscriptionPool[4]) =>
              InNoTable(q) /\ queues[q].items = <<>> /\ queues[q].taken = <<>>

\* an envelope has just been published that matches the executor's queue
\* under three keys, with a queue that has no dimension also subscribed
C8_Witness ==
    /\ last_publish # NoMessage
    /\ \E q \in DOMAIN queues :
          /\ MatchingKeys(q, last_publish) = 3
          /\ Occurrences(last_publish, queues[q].items) = 1
    /\ \E q \in DOMAIN queues :
          /\ queues[q].args = SubscriptionPool[4]
          /\ queues[q].subscribed_at < Len(published)
    /\ \E q \in DOMAIN queues :
          /\ queues[q].args = SubscriptionPool[3]
          /\ queues[q].subscribed_at < Len(published)
          /\ ~RegisteredFor(q, last_publish)
          /\ Occurrences(last_publish, queues[q].items) = 0

\* the envelopes published since queue q was subscribed
PublishedSince(q) == SubSeq(published, queues[q].subscribed_at + 1, Len(published))

\* everything queue q was given, in the order it leaves the queue
Received(q) == queues[q].taken \o queues[q].items

\* C9: a queue obtained by subscribe(broadcast=true) receives exactly the
\* envelopes published after the subscription, in publish order, whatever
\* their recipient id, recipient role, message type or task id.
C9_BroadcastReceivesAll ==
    \A q \in DOMAIN queues :
        queues[q].args.broadcast => Received(q) = PublishedSince(q)

\* a broadcast queue that was subscribed after a first publish has received
\* an addressed envelope and then an unaddressed one without a task
C9_Witness ==
    \E q \in DOMAIN queues :
        /\ queues[q].args.broadcast
        /\ queues[q].subscribed_at > 0
        /\ Len(Received(q)) >= 2
        /\ \E i \in 1..(Len(Received(q)) - 1) :
              /\ Received(q)[i].recipient_id # None
              /\ Received(q)[i + 1].recipient_role = None
              /\ Received(q)[i + 1].task_id = None

\* the position of an envelope in a list of envelopes (0 when it is absent)
PositionIn(message, list) ==
    IF \E i \in DOMAIN list : list[i].message_id = message.message_id
    THEN CHOOSE i \in DOMAIN list : list[i].message_id = message.message_id
    ELSE 0

\* list holds envelopes of the reference list, in the reference's order
InOrderOf(list, reference) ==
    \A i, j \in DOMAIN list :
        i < j => /\ PositionIn(list[i], reference) > 0
                 /\ PositionIn(list[i], reference) < PositionIn(list[j], reference)

\* the entries of list that are also in the reference list
RECURSIVE Within(_, _)
Within(list, reference) ==
    IF list = <<>> THEN <<>>
    ELSE (IF PositionIn(Head(list), reference) > 0 THEN <<Head(list)>> ELSE <<>>)
             \o Within(Tail(list), reference)

\* C10: whatever the interleaving of the publishing tasks, the history holds
\* the envelopes in publish order, and the envelopes taken from a queue are
\* taken in the relative order in which they are in the history (and in
\* which they were published).
C10_PublishOrder ==
    /\ InOrderOf(message_history, published)
    /\ \A q \in DOMAIN queues :
          /\ InOrderOf(Received(q), published)
          /\ InOrderOf(Within(queues[q].taken, message_history), message_history)

\* envelopes of two different senders were taken from one queue, both still
\* in the history, while a third one waits in it
C10_Witness ==
    \E q \in DOMAIN queues :
        /\ Len(queues[q].taken) >= 2
        /\ queues[q].taken[1].sender_id # queues[q].taken[2].sender_id
        /\ Len(Within(queues[q].taken, message_history)) >= 2
        /\ queues[q].items # <<>>

(***************************************************************************)
(* SpecHistory: a bus of a small capacity on which envelopes are           *)
(* published while queues are subscribed and unsubscribed and the history  *)
(* is cleared.                                                             *)
(***************************************************************************)
InitHistory ==
    /\ \E size \in HistorySizes : InitBus(size)
    /\ InitPlanner
    /\ InitNoSwarm

HistoryPublish ==
    /\ Len(published) < MaxPublish
    /\ \E k \in DOMAIN SendPool :
          LET send == SendPool[k]
          IN SendMessage(send.sender, send.message_type, [text |-> "payload"],
                         send.recipient_role, send.recipient_id, 0, FALSE, None)
    /\ UNCHANGED <<plannerVars, swarmVars>>

\* an observer and the executor subscribe
HistorySubscribe ==
    \E k \in {1, 2} :
        /\ NotYetSubscribed(k)
        /\ Subscribe(SubscriptionPool[k])
        /\ UNCHANGED <<plannerVars, swarmVars>>

\* an asyncio.Queue that subscribe did not return
ForeignQueue == -1

\* unsubscribe is given a queue of the bus, registered or not, or another one
HistoryUnsubscribe ==
    \E q \in {ForeignQueue} \cup DOMAIN queues :
        /\ Unsubscribe(q)
        /\ UNCHANGED <<plannerVars, swarmVars>>

HistoryClear ==
    /\ ClearHistory
    /\ UNCHANGED <<plannerVars, swarmVars>>

NextHistory ==
    \/ HistoryPublish
    \/ HistorySubscribe
    \/ HistoryUnsubscribe
    \/ HistoryClear

SpecHistory == InitHistory /\ [][NextHistory]_vars

\* the envelopes published since the history was last cleared (all of them
\* when it never was)
PublishedSinceClear == SubSeq(published, cleared_at + 1, Len(published))

Min(a, b) == IF a <= b THEN a ELSE b

\* C7: after k publish calls with no clear_history in between, on a bus of
\* capacity N = max_history_size, get_message_history() has length
\* min(k, N) and is the last min(k, N) published envelopes in publish order.
C7_HistoryRingBuffer ==
    LET k == Len(PublishedSinceClear)
        kept == Min(k, max_history_size)
    IN /\ Len(GetMessageHistory) = kept
       /\ GetMessageHistory = SubSeq(PublishedSinceClear, k - kept + 1, k)

\* more envelopes were published than a capacity of two holds, none cleared
C7_Witness ==
    /\ cleared_at = 0
    /\ max_history_size = 2
    /\ Len(published) > max_history_size
    /\ GetMessageHistory = <<published[Len(published) - 1], published[Len(published)]>>
    /\ GetMessageHistory[1].message_type # GetMessageHistory[2].message_type

(***************************************************************************)
(* SpecSafety: a planner with guards and affordances, and a coordinator on *)
(* the same task, both asked about single actions.                         *)
(***************************************************************************)
InitSafety ==
    /\ InitPlannerWindow(0)
    /\ InitBus(DefaultMaxHistorySize)
    /\ \E requested \in BOOLEAN :
           InitCoordinators({"t1"}, Construction(requested, TRUE, FALSE))

\* a registration makes the verdicts obtained before it stale
SafetyRegisterGuard ==
    \E k \in DOMAIN GuardPool :
        /\ \A j \in DOMAIN guards : guards[j] # GuardPool[k]
        /\ RegisterGuard(GuardPool[k])
        /\ coordination' = NoCoordination
        /\ UNCHANGED <<busVars, coordinatorVars, call>>

SafetyRegisterAffordance ==
    \E k \in DOMAIN AffordancePool :
        /\ \A j \in DOMAIN affordances : affordances[j] # AffordancePool[k]
        /\ RegisterAffordance(AffordancePool[k])
        /\ coordination' = NoCoordination
        /\ UNCHANGED <<busVars, coordinatorVars, call>>

SafetyValidate ==
    \E k \in DOMAIN ActionPool, e \in DOMAIN EnvPool :
        /\ ValidateAndFilterActions(<<ActionPool[k]>>, EnvPool[e].page, EnvPool[e].url)
        /\ UNCHANGED <<busVars, swarmVars>>

SafetyCoordinate ==
    /\ Len(published) < MaxPublish
    /\ \E k \in DOMAIN ActionPool : CoordinateActionExecution("t1", "s1", ActionPool[k])
    /\ UNCHANGED plannerVars

NextSafety ==
    \/ SafetyRegisterGuard
    \/ SafetyRegisterAffordance
    \/ SafetyValidate
    \/ SafetyCoordinate

SpecSafety == InitSafety /\ [][NextSafety]_vars

\* the planner and the enabled coordinator have both been asked about the
\* same action under the registry that is in force
BothAsked ==
    /\ enable_swarm
    /\ result.called
    /\ coordination.called
    /\ result.actions = <<coordination.action>>

\* C6: the enabled coordinator and the safety planner give the same verdict
\* on an action: coordinate_action_execution approves it iff
\* validate_and_filter_actions accepts it, for every snapshot, URL and
\* registry of guards and affordances.
C6_SameVerdict ==
    BothAsked => (coordination.approved <=> result.filtered_actions = <<coordination.action>>)

\* C6, one direction: an action the coordinator approves is one the planner
\* accepts
C6_ApprovedIsAccepted ==
    (BothAsked /\ coordination.approved) => result.filtered_actions = <<coordination.action>>

\* C6, what the code does: the verdict of the enabled coordinator depends on
\* the action type alone
C6_VerdictByType ==
    (enable_swarm /\ coordination.called) =>
        (coordination.approved <=>
            coordination.action.action_type \notin {TERMINATE, COMPLETE})

\* a click that an active guard rejects in the planner was approved by the
\* enabled coordinator
C6_Witness ==
    /\ BothAsked
    /\ coordination.approved
    /\ result.filtered_actions = <<>>
    /\ result.outcomes[1].guard > 0

(***************************************************************************)
(* Claims about unsubscribe (checked under SpecHistory)                    *)
(***************************************************************************)
SubscriberTables ==
    <<broadcast_subscribers, subscribers, role_subscribers,
      message_type_subscribers, task_subscribers>>

\* every envelope that was put on queue q, in the order of the puts
PutOn(q) == queues[q].taken \o queues[q].items

\* C11: after unsubscribe(q), q is registered in none of the five subscriber
\* tables, and no envelope published afterwards is put on q; unsubscribe(q)
\* for a q that is registered nowhere (unsubscribed before, or never
\* registered) leaves every table and the subscriber count as they were.
C11_UnsubscribeRemoves ==
    [][\A q \in {ForeignQueue} \cup DOMAIN queues :
          /\ Unsubscribe(q) => InNoTable(q)'
          /\ (q \in DOMAIN queues /\ InNoTable(q)) =>
                 /\ InNoTable(q)'
                 /\ PutOn(q)' = PutOn(q)
          /\ (Unsubscribe(q) /\ InNoTable(q)) =>
                 /\ SubscriberTables' = SubscriberTables
                 /\ stats'.subscribers_count = stats.subscribers_count]_vars

\* a broadcast queue and the executor's queue were unsubscribed, and an
\* envelope of the executor's task published after that reached neither
C11_Witness ==
    \E q1, q2 \in DOMAIN queues :
        /\ queues[q1].args.broadcast
        /\ queues[q2].args.task_id = "t1"
        /\ InNoTable(q1) /\ InNoTable(q2)
        /\ stats.subscribers_count = 0
        /\ published # <<>>
        /\ published[Len(published)].task_id = "t1"
        /\ \A q \in {q1, q2} :
              \A i \in DOMAIN PutOn(q) :
                  PutOn(q)[i].message_id # published[Len(published)].message_id

(***************************************************************************)
(* BaseAgent.receive_message.  The call returns at once when the agent has *)
(* no queue or when its queue holds an item; otherwise it is suspended in  *)
(* queue.get() until an item is put on the queue or, when wait_for was     *)
(* used, until the timeout expires.                                        *)
(***************************************************************************)
\* `if timeout:`: None and 0 take the branch without wait_for
UsesWaitFor(timeout) == timeout.given /\ timeout.seconds # 0

Returned(agent, timeout, message) ==
    [op |-> "receive_message", agent_id |-> agent.agent_id, timeout |-> timeout,
     returned |-> message]

\* the call, up to its return or to its suspension
ReceiveMessage(agent, timeout) ==
    LET q == agents[agent.agent_id].message_queue
    IN /\ ~receiving[agent.agent_id].waiting
       /\ IF q = NoQueue
          THEN /\ call' = Returned(agent, timeout, NoMessage)
               /\ UNCHANGED <<busVars, receiving>>
          ELSE IF queues[q].items # <<>>
          THEN /\ QueueGet(q)
               /\ call' = Returned(agent, timeout, QueueTake(queues[q].items).taken)
               /\ UNCHANGED receiving
          ELSE /\ receiving' = [receiving EXCEPT ![agent.agent_id] =
                                   [waiting |-> TRUE, timeout |-> timeout, queue |-> q]]
               /\ call' = [op |-> "receive_message.suspended",
                           agent_id |-> agent.agent_id, timeout |-> timeout]
               /\ UNCHANGED busVars

\* an item was put on the queue the call waits for: queue.get() returns it
ReceiveWake(agent) ==
    LET waits == receiving[agent.agent_id]
    IN /\ waits.waiting
       /\ QueueGet(waits.queue)
       /\ call' = Returned(agent, waits.timeout, QueueTake(queues[waits.queue].items).taken)
       /\ receiving' = [receiving EXCEPT ![agent.agent_id] = NotReceiving]

\* wait_for gives up while the queue is still empty: asyncio.TimeoutError is
\* caught and None is returned
ReceiveTimeout(agent) ==
    LET waits == receiving[agent.agent_id]
    IN /\ waits.waiting
       /\ UsesWaitFor(waits.timeout)
       /\ queues[waits.queue].items = <<>>
       /\ call' = Returned(agent, waits.timeout, NoMessage)
       /\ receiving' = [receiving EXCEPT ![agent.agent_id] = NotReceiving]
       /\ UNCHANGED busVars

(***************************************************************************)
(* SpecAgents: two agents on one bus that are started and stopped and send *)
(* envelopes to each other, in any interleaving.                           *)
(***************************************************************************)
MaxQueues == 3

AgentPool == <<ExecutorT1, ValidatorT1>>

InitAgents ==
    /\ InitPlanner
    /\ InitBus(DefaultMaxHistorySize)
    /\ enable_swarm = FALSE
    /\ coordination = NoCoordination
    /\ construction = Construction(FALSE, FALSE, FALSE)
    /\ agents = [a \in {AgentPool[i].agent_id : i \in DOMAIN AgentPool} |-> NewAgent]
    /\ call = NoCall
    /\ receiving = [a \in {AgentPool[i].agent_id : i \in DOMAIN AgentPool} |-> NotReceiving]

agentsFrame == <<plannerVars, enable_swarm, coordination, construction>>

AgentsStart ==
    /\ Len(queues) < MaxQueues
    /\ \E i \in DOMAIN AgentPool : AgentStart(AgentPool[i])
    /\ UNCHANGED <<agentsFrame, receiving>>

AgentsStop ==
    /\ \E i \in DOMAIN AgentPool : AgentStop(AgentPool[i])
    /\ UNCHANGED <<agentsFrame, receiving>>

\* the executor proposes to the validators, the validator answers the executor
AgentsSend ==
    /\ Len(published) < MaxPublish
    /\ \E k \in {1, 2} :
          LET send == SendPool[k]
          IN /\ SendMessage(send.sender, send.message_type, [text |-> "payload"],
                            send.recipient_role, send.recipient_id, 0, FALSE, None)
             /\ call' = [op |-> "send_message", agent_id |-> send.sender.agent_id]
    /\ UNCHANGED <<agentsFrame, agents, receiving>>

NextAgents ==
    \/ AgentsStart
    \/ AgentsStop
    \/ AgentsSend

SpecAgents == InitAgents /\ [][NextAgents]_vars

\* C12: start() on an agent that is already active is a no-op: the
\* subscriber tables, the subscriber count and the agent's own queue are the
\* same after the second start() as after the first, and no second queue is
\* allocated or registered.
C12_StartIdempotent ==
    [][\A i \in DOMAIN AgentPool :
          LET a == AgentPool[i].agent_id
          IN (call'.op = "agent.start" /\ call'.agent_id = a /\ agents[a].active) =>
                 /\ SubscriberTables' = SubscriberTables
                 /\ stats'.subscribers_count = stats.subscribers_count
                 /\ agents'[a] = agents[a]
                 /\ Len(queues') = Len(queues)]_vars

\* C12, what the code does: start() on an active agent subscribes once more.
\* A new queue becomes the agent's queue and is registered under the agent
\* id, the role and the task next to the old one, which stays registered.
C12_RestartSubscribesAgain ==
    [][\A i \in DOMAIN AgentPool :
          LET a == AgentPool[i].agent_id
          IN (call'.op = "agent.start" /\ call'.agent_id = a /\ agents[a].active) =>
                 /\ Len(queues') = Len(queues) + 1
                 /\ agents'[a] = [active |-> TRUE, message_queue |-> Len(queues')]
                 /\ stats'.subscribers_count = stats.subscribers_count + 3
                 /\ ~InNoTable(agents[a].message_queue)'
                 /\ TableGet(subscribers, a)' =
                        Append(TableGet(subscribers, a), Len(queues'))]_vars

(***************************************************************************)
(* SpecReceive: the validator polls its queue with receive_message while   *)
(* the executor sends it proposals; the validator is started at some       *)
(* point, or never.  The event loop runs every coroutine that can go on: a *)
(* queue.get() that has an item to take and a wait_for that has expired.   *)
(***************************************************************************)
TimeoutPool == {NoTimeout, Timeout(0), Timeout(1)}

PollStart ==
    /\ Len(queues) < 1
    /\ AgentStart(ValidatorT1)
    /\ UNCHANGED <<agentsFrame, receiving>>

PollSend ==
    /\ Len(published) < MaxPublish
    /\ LET send == SendPool[1]
       IN /\ SendMessage(send.sender, send.message_type, [text |-> "payload"],
                         send.recipient_role, send.recipient_id, 0, FALSE, None)
          /\ call' = [op |-> "send_message", agent_id |-> send.sender.agent_id]
    /\ UNCHANGED <<agentsFrame, agents, receiving>>

PollReceive ==
    /\ \E timeout \in TimeoutPool : ReceiveMessage(ValidatorT1, timeout)
    /\ UNCHANGED <<agentsFrame, agents>>

PollWake ==
    /\ ReceiveWake(ValidatorT1)
    /\ UNCHANGED <<agentsFrame, agents>>

PollTimeout ==
    /\ ReceiveTimeout(ValidatorT1)
    /\ UNCHANGED <<agentsFrame, agents>>

NextReceive ==
    \/ PollStart
    \/ PollSend
    \/ PollReceive
    \/ PollWake
    \/ PollTimeout

SpecReceive ==
    /\ InitAgents
    /\ [][NextReceive]_vars
    /\ WF_vars(PollWake)
    /\ WF_vars(PollTimeout)

Polling == receiving[ValidatorT1.agent_id]

\* C20: receive_message called with a timeout, whatever its value (zero
\* included), on a started agent whose queue stays empty returns "no
\* message" when the timeout expires: it does not stay suspended for ever.
C20_TimeoutReturns ==
    (Polling.waiting /\ Polling.timeout.given) ~> ~Polling.waiting

\* C20, what the code does: the call returns when the timeout is not zero
C20_PositiveTimeoutReturns ==
    (Polling.waiting /\ UsesWaitFor(Polling.timeout)) ~> ~Polling.waiting

\* C20, the other cases: a call returns the oldest queued envelope when
\* there is one, and "no message" at once on an agent that was never started
C20_ReturnsOldestOrNothing ==
    /\ (call.op = "receive_message" /\ call.returned # NoMessage) =>
           LET q == agents[call.agent_id].message_queue
           IN /\ queues[q].taken # <<>>
              /\ call.returned = queues[q].taken[Len(queues[q].taken)]
              /\ queues[q].taken = SubSeq(published, queues[q].subscribed_at + 1,
                                          queues[q].subscribed_at + Len(queues[q].taken))
    /\ (\A a \in DOMAIN agents : agents[a].message_queue = NoQueue) =>
           /\ ~Polling.waiting
           /\ call.op \in {"receive_message", "receive_message.suspended"} =>
                  (call.op = "receive_message" /\ call.returned = NoMessage)

\* the started validator is suspended in receive_message(timeout=0) on an
\* empty queue
C20_Witness ==
    /\ agents[ValidatorT1.agent_id].active
    /\ Polling.waiting
    /\ Polling.timeout = Timeout(0)
    /\ queues[Polling.queue].items = <<>>

(***************************************************************************)
(* SpecSwarm: two coordinators, for two tasks, on the global bus.  Their   *)
(* callers start and stop them and call coordinate_planning,               *)
(* coordinate_action_execution and request_consensus in any interleaving;  *)
(* no call suspends, so each one is a single step.                         *)
(* Both coordinators were constructed with the same enable_swarm argument  *)
(* under the same settings.                                                *)
(***************************************************************************)
Tasks == {"t1", "t2"}

\* enabled in debug mode, enabled by the feature flag, not requested, and
\* requested but permitted by neither setting
ConstructionPool ==
    { Construction(TRUE, TRUE, FALSE), Construction(TRUE, FALSE, TRUE),
      Construction(FALSE, TRUE, TRUE), Construction(TRUE, FALSE, FALSE) }

\* action lists of low, medium and high risk
PlanningActionLists ==
    { <<>>, [i \in 1..6 |-> Action(CLICK, "btn1")], [i \in 1..11 |-> Action(CLICK, "btn1")] }

OptionLists == { <<>>, <<"retry", "skip">> }

InitSwarm ==
    /\ InitPlanner
    /\ InitBus(DefaultMaxHistorySize)
    /\ \E c \in ConstructionPool : InitCoordinators(Tasks, c)

swarmFrame == <<plannerVars, enable_swarm, construction, receiving>>

\* each coordinator is started at most twice in all
SwarmStart ==
    /\ Len(queues) <= MaxQueues
    /\ \E t \in Tasks : CoordinatorStart(t)
    /\ UNCHANGED <<swarmFrame, coordination>>

SwarmStop ==
    /\ \E t \in Tasks : CoordinatorStop(t)
    /\ UNCHANGED <<swarmFrame, coordination>>

SwarmPlanning ==
    /\ Len(published) < MaxPublish
    /\ \E t \in Tasks, actions \in PlanningActionLists : CoordinatePlanning(t, actions)
    /\ UNCHANGED <<swarmFrame, agents, coordination>>

SwarmExecution ==
    /\ Len(published) < MaxPublish
    /\ \E t \in Tasks, k \in DOMAIN ActionPool :
          CoordinateActionExecution(t, StepOf(t), ActionPool[k])
    /\ UNCHANGED plannerVars

SwarmConsensus ==
    /\ Len(published) < MaxPublish
    /\ \E t \in Tasks, options \in OptionLists : RequestConsensus(t, "next step", options)
    /\ UNCHANGED <<swarmFrame, agents, coordination>>

NextSwarm ==
    \/ SwarmStart
    \/ SwarmStop
    \/ SwarmPlanning
    \/ SwarmExecution
    \/ SwarmConsensus

SpecSwarm == InitSwarm /\ [][NextSwarm]_vars

(***************************************************************************)
(* Claims about the coordinators (checked under SpecSwarm)                 *)
(***************************************************************************)
\* the queue of the agent is registered under its id, its role and its task
QueueRegistered(agent) ==
    LET q == agents[agent.agent_id].message_queue
    IN /\ q # NoQueue
       /\ q \in Range(TableGet(subscribers, agent.agent_id))
       /\ q \in Range(TableGet(role_subscribers, agent.role))
       /\ q \in Range(TableGet(task_subscribers, agent.task_id))

\* every queue that a start() of the agent has allocated
QueuesMadeFor(agent) == {q \in DOMAIN queues : queues[q].args.agent_id = agent.agent_id}

AllActive(t) ==
    \A i \in 1..3 : agents[SwarmAgents(t)[i].agent_id].active /\ QueueRegistered(SwarmAgents(t)[i])

AllInactive(t) ==
    \A i \in 1..3 :
        LET agent == agents[SwarmAgents(t)[i].agent_id]
        IN /\ ~agent.active
           /\ agent.message_queue # NoQueue => InNoTable(agent.message_queue)

\* of the queues made for the agents of t, only the ones they hold now are
\* registered, as after a start() that followed a stop() or the construction
OnlyCurrentRegistered(t) ==
    \A i \in 1..3 : \A q \in QueuesMadeFor(SwarmAgents(t)[i]) :
        ~InNoTable(q) => q = agents[SwarmAgents(t)[i].agent_id].message_queue

NoneRegistered(t) ==
    \A i \in 1..3 : \A q \in QueuesMadeFor(SwarmAgents(t)[i]) : InNoTable(q)

\* C13: in enabled mode start() followed by stop() is a round trip on the
\* bus.  Between the two calls the planner, the executor and the validator
\* are all active, each with a queue registered on the bus; after stop() all
\* three are inactive and the subscriber tables hold none of their queues,
\* as before start(); a further stop(), or stop() on agents that were never
\* started, changes nothing.
C13_StartStopRoundTrip ==
    /\ [](enable_swarm => \A t \in Tasks : AllActive(t) \/ AllInactive(t))
    /\ [][enable_swarm => \A t \in Tasks :
            /\ (call'.op = "start" /\ call'.task_id = t) =>
                   /\ AllActive(t)'
                   /\ NoneRegistered(t) => OnlyCurrentRegistered(t)'
            /\ (call'.op = "stop" /\ call'.task_id = t) =>
                   /\ AllInactive(t)'
                   /\ OnlyCurrentRegistered(t) => NoneRegistered(t)'
                   /\ AllInactive(t) =>
                          /\ SubscriberTables' = SubscriberTables
                          /\ stats' = stats
                          /\ agents' = agents
                          /\ queues' = queues]_vars

\* the coordinator of one task was started and stopped while the other one
\* stays started: its agents are inactive, hold the queues on which they got
\* the status update, and none of these is registered any more
C13_Witness ==
    /\ enable_swarm
    /\ call.op = "stop"
    /\ AllInactive(call.task_id)
    /\ NoneRegistered(call.task_id)
    /\ \A i \in 1..3 :
          LET q == agents[SwarmAgents(call.task_id)[i].agent_id].message_queue
          IN q # NoQueue /\ queues[q].items # <<>>
    /\ \E t \in Tasks : t # call.task_id /\ AllActive(t) /\ OnlyCurrentRegistered(t)
    /\ stats.subscribers_count = 9

\* the caller did not request coordination, or neither setting permits it
NotEffective ==
    \/ ~construction.enable_swarm
    \/ ~construction.DEBUG_MODE /\ ~construction.ENABLE_MULTI_AGENT_SWARM

\* C14: when coordination is not effective, every sequence of start, stop,
\* coordinate_planning, coordinate_action_execution and request_consensus
\* leaves the bus untouched (nothing in the history, nothing sent, no queue
\* registered) and the agents inactive; coordinate_planning returns the
\* caller's action list unchanged with approved = true, and
\* coordinate_action_execution returns (true, no modifications).
C14_DisabledLeavesBusUntouched ==
    NotEffective =>
        /\ message_history = <<>> /\ published = <<>>
        /\ stats = [messages_sent |-> 0, messages_received |-> 0, subscribers_count |-> 0]
        /\ queues = <<>>
        /\ SubscriberTables = <<<<>>, EmptyTable, EmptyTable, EmptyTable, EmptyTable>>
        /\ \A a \in DOMAIN agents : agents[a] = NewAgent
        /\ call.op = "coordinate_planning" =>
               call.returned = [actions |-> call.actions, approved |-> TRUE]
        /\ call.op = "coordinate_action_execution" =>
               /\ coordination.approved
               /\ coordination.modifications = EmptyDict

\* coordination was requested but is permitted by neither setting; a
\* terminate action was passed to coordinate_action_execution, which let it
\* through
C14_Witness ==
    /\ construction = Construction(TRUE, FALSE, FALSE)
    /\ call.op = "coordinate_action_execution"
    /\ coordination.action.action_type = TERMINATE
    /\ coordination.approved
    /\ published = <<>>

(***************************************************************************)
(* SpecPlanning: two enabled coordinators, for two tasks, on the global    *)
(* bus, whose callers run the planning and the execution protocol and read *)
(* the history, concurrently: the calls of the two interleave.             *)
(***************************************************************************)
\* a call that publishes is made while fewer envelopes than this were
\* published
MaxEnvelopes == 5

InitPlanning ==
    /\ InitPlanner
    /\ InitBus(DefaultMaxHistorySize)
    /\ \E c \in {c \in ConstructionPool : c.enable_swarm /\ (c.DEBUG_MODE \/ c.ENABLE_MULTI_AGENT_SWARM)} :
           InitCoordinators(Tasks, c)

PlanningPlan ==
    /\ Len(published) < MaxEnvelopes
    /\ \E t \in Tasks, actions \in PlanningActionLists : CoordinatePlanning(t, actions)
    /\ UNCHANGED <<swarmFrame, agents, coordination>>

PlanningExecute ==
    /\ Len(published) < MaxEnvelopes
    /\ \E t \in Tasks, k \in DOMAIN ActionPool :
          CoordinateActionExecution(t, StepOf(t), ActionPool[k])
    /\ UNCHANGED plannerVars

PlanningHistory ==
    /\ \E t \in Tasks : CoordinatorGetMessageHistory(t)
    /\ UNCHANGED <<swarmFrame, agents, coordination>>

NextPlanning ==
    \/ PlanningPlan
    \/ PlanningExecute
    \/ PlanningHistory

SpecPlanning == InitPlanning /\ [][NextPlanning]_vars

(***************************************************************************)
(* Claims about the planning and execution protocols (SpecPlanning)        *)
(***************************************************************************)
PlanningTypes == <<THOUGHT, PLAN, VALIDATION_REQUEST, VALIDATION_RESULT>>

\* the envelopes of the planning protocol that task t has in list
PlanningEnvelopes(t, list) ==
    SelectSeq(list, LAMBDA m : m.task_id = t /\ m.message_type \in Range(PlanningTypes))

\* the four envelopes at positions n - 3 .. n of list are the ones of one
\* coordinate_planning call of task t
PlanningRound(list, n, t) ==
    /\ n >= 4
    /\ \A k \in 1..4 :
          /\ list[n - 4 + k].message_type = PlanningTypes[k]
          /\ list[n - 4 + k].task_id = t
    /\ list[n - 3].sender_id = "planner-" \o t /\ list[n - 3].sender_role = PLANNER
    /\ list[n - 2].sender_id = "planner-" \o t /\ list[n - 2].sender_role = PLANNER
    /\ list[n - 2].recipient_role = VALIDATOR
    /\ list[n - 1].sender_id = "validator-" \o t /\ list[n - 1].sender_role = VALIDATOR
    /\ list[n].sender_id = "validator-" \o t /\ list[n].sender_role = VALIDATOR

\* C15: in enabled mode each coordinate_planning call appends to the bus
\* history exactly four envelopes in this order: THOUGHT from the planner,
\* PLAN from the planner addressed to the validator role, VALIDATION_REQUEST
\* from the validator, VALIDATION_RESULT from the validator; it returns the
\* caller's action list unfiltered, and the approved flag it returns is the
\* valid field of that VALIDATION_RESULT.  With coordinators running
\* concurrently, the four envelopes of each keep this order in the history.
C15_PlanningProtocol ==
    /\ [](enable_swarm =>
            /\ call.op = "coordinate_planning" =>
                   /\ PlanningRound(message_history, Len(message_history), call.task_id)
                   /\ call.returned.actions = call.actions
                   /\ call.returned.approved =
                          message_history[Len(message_history)].content.valid
            /\ \A t \in Tasks :
                   LET mine == PlanningEnvelopes(t, message_history)
                   IN \A i \in DOMAIN mine :
                          mine[i].message_type = PlanningTypes[((i - 1) % 4) + 1])
    /\ [][(enable_swarm /\ call'.op = "coordinate_planning") =>
              /\ Len(message_history') = Len(message_history) + 4
              /\ SubSeq(message_history', 1, Len(message_history)) = message_history]_vars

\* both coordinators have planned on the one bus, the second one a list of
\* eleven actions, which the validator rejected and the call returned whole
C15_Witness ==
    /\ enable_swarm
    /\ call.op = "coordinate_planning"
    /\ Len(call.actions) = 11
    /\ Len(call.returned.actions) = 11
    /\ ~call.returned.approved
    /\ \A t \in Tasks : Len(PlanningEnvelopes(t, message_history)) = 4
    /\ Len(message_history) = 8
    /\ message_history[1].task_id # call.task_id

\* C16: in enabled mode each coordinate_action_execution call publishes
\* exactly one ACTION_PROPOSAL (executor to validator role, requires_response
\* = true) and then exactly one decision envelope, ACTION_APPROVAL or
\* ACTION_REJECTION, whose in_response_to is the message id of that published
\* proposal; the call returns approved = true iff the decision envelope is an
\* ACTION_APPROVAL.
C16_ProposalThenDecision ==
    /\ [](enable_swarm /\ call.op = "coordinate_action_execution" =>
            LET n == Len(published)
                proposal == published[n - 1]
                decision == published[n]
            IN /\ n >= 2
               /\ proposal.message_type = ACTION_PROPOSAL
               /\ proposal.sender_id = "executor-" \o call.task_id
               /\ proposal.sender_role = EXECUTOR
               /\ proposal.recipient_role = VALIDATOR
               /\ proposal.requires_response
               /\ proposal.content.action_type = coordination.action.action_type
               /\ decision.message_type \in {ACTION_APPROVAL, ACTION_REJECTION}
               /\ decision.sender_id = "validator-" \o call.task_id
               /\ decision.in_response_to = proposal.message_id
               /\ \A i \in 1..n : published[i].message_id = proposal.message_id => i = n - 1
               /\ coordination.approved <=> decision.message_type = ACTION_APPROVAL)
    /\ [][(enable_swarm /\ call'.op = "coordinate_action_execution") =>
              /\ Len(published') = Len(published) + 2
              /\ SubSeq(published', 1, Len(published)) = published]_vars

\* a terminate action was proposed after other envelopes and rejected
C16_Witness ==
    /\ enable_swarm
    /\ call.op = "coordinate_action_execution"
    /\ ~coordination.approved
    /\ coordination.action.action_type = TERMINATE
    /\ Len(published) >= 4
    /\ published[Len(published)].message_type = ACTION_REJECTION
    /\ published[Len(published)].in_response_to = published[Len(published) - 1].message_id

\* C19: with two coordinators for different tasks sharing the bus, each
\* coordinator's get_message_history() completes without error and returns
\* exactly the envelopes of the bus history whose task_id is that
\* coordinator's task, in history order, without changing any bus state.
C19_HistoryOfTask ==
    /\ [](call.op = "get_message_history" =>
            /\ call.raised = None
            /\ call.returned =
                   SelectSeq(message_history, LAMBDA m : m.task_id = call.task_id))
    /\ [][call'.op = "get_message_history" => UNCHANGED busVars]_vars

\* C19, what the code does: the coordinator's call always raises TypeError
\* and leaves the bus as it is; the filter of the bus itself, given the task
\* id, selects exactly the task's envelopes in history order
C19_RaisesTypeError ==
    /\ [](/\ call.op = "get_message_history" => call.raised = "TypeError"
          /\ \A t \in Tasks :
                GetMessageHistoryFiltered(
                    MessageFilter(None, None, None, t, None, NoTime, NoTime, NoPriority))
                    = SelectSeq(message_history, LAMBDA m : m.task_id = t))
    /\ [][call'.op = "get_message_history" => UNCHANGED busVars]_vars

\* the first coordinator asks for its history when both have planned
C19_Witness ==
    /\ call.op = "get_message_history"
    /\ call.task_id = "t1"
    /\ \A t \in Tasks : Len(PlanningEnvelopes(t, message_history)) = 4

(***************************************************************************)
(* SpecValidator: one validator, started as in its tests, that is handed   *)
(* action proposals and plan messages of every kind, in any order.         *)
(***************************************************************************)
\* a validation is asked for while fewer envelopes than this were published
MaxValidations == 3

\* action types as the proposals spell them, confidences on both sides of
\* the threshold and at it, and the risk the proposer states
ProposalTypes == {"click", "terminate", "TERMINATE", "Complete"}
ProposalConfidences == {AutoApproveThreshold - 1, AutoApproveThreshold, ProposalConfidence}
ProposalRisks == {"low", "high"}

\* the AgentMessage of the test, around the proposal
ProposalMessage(proposal) ==
    AgentMessage("proposal-1", ExecutorT1, VALIDATOR, None, ACTION_PROPOSAL, proposal,
                 0, FALSE, None)

\* a PlanMessage of n steps whose planner states risk_level
PlanWith(risk_level, n) ==
    [steps |-> [i \in 1..n |-> [action_type |-> CLICK]], risk_level |-> risk_level,
     alternatives |-> <<>>]

\* plans on both sides of the ten steps, at each stated risk
PlanPool == { PlanWith("low", 1), PlanWith("low", 11), PlanWith("high", 10),
              PlanWith("high", 11) }

\* the AgentMessage of the test, around the plan
PlanMessageOf(plan) ==
    AgentMessage("plan-1", PlannerAgent("t1", "s1"), VALIDATOR, None, PLAN, plan,
                 0, FALSE, None)

validatorFrame == <<plannerVars, enable_swarm, coordination, construction, receiving>>

ValidatorStart ==
    /\ queues = <<>>
    /\ AgentStart(ValidatorT1)
    /\ UNCHANGED validatorFrame

ValidatorValidateAction ==
    /\ Len(published) < MaxValidations
    /\ \E type \in ProposalTypes, risk \in ProposalRisks, confidence \in ProposalConfidences :
          LET action_proposal == ProposalMessage(ActionProposal(type, risk, confidence))
              validated == AfterValidateAction(BusNow, ValidatorT1, action_proposal)
          IN /\ SetBus(validated.bus, validated.decision)
             /\ call' = [op |-> "validate_action", action_proposal |-> action_proposal,
                         returned |-> [approved |-> validated.approved,
                                       modifications |-> validated.modifications]]
    /\ UNCHANGED <<validatorFrame, agents>>

ValidatorValidatePlan ==
    /\ Len(published) < MaxValidations
    /\ \E plan \in PlanPool :
          LET validated == AfterValidatePlan(BusNow, ValidatorT1, PlanMessageOf(plan))
          IN /\ SetBus(validated.bus, validated.last)
             /\ call' = [op |-> "validate_plan", plan_message |-> PlanMessageOf(plan),
                         returned |-> validated.is_valid]
    /\ UNCHANGED <<validatorFrame, agents>>

NextValidator ==
    \/ ValidatorStart
    \/ ValidatorValidateAction
    \/ ValidatorValidatePlan

SpecValidator == InitAgents /\ [][NextValidator]_vars

(***************************************************************************)
(* Claims about the validator (SpecValidator)                              *)
(***************************************************************************)
\* the spellings of the pool that name terminate or complete in some case
HighRiskSpellings == {"terminate", "TERMINATE", "Complete"}

\* C17: validate_action approves a proposal iff its confidence is at least
\* 0.8 (0.8 itself approves) and it is not high-risk, where high-risk means
\* that the action type, compared without regard to case, is terminate or
\* complete, or that the proposal's own risk_assessment is "high".  A
\* terminate proposal is rejected at every confidence, and a proposal of
\* confidence 0.9 and low risk of any other type is approved.  The decision
\* published is the approval or the rejection accordingly.
C17_ApprovalRule ==
    call.op = "validate_action" =>
        LET proposal == call.action_proposal.content
            high_risk == \/ proposal.action_type \in HighRiskSpellings
                         \/ proposal.risk_assessment = "high"
        IN /\ call.returned.approved = (proposal.confidence >= 80 /\ ~high_risk)
           /\ proposal.action_type \in {"terminate", "TERMINATE"} => ~call.returned.approved
           /\ (/\ proposal.confidence = 90
               /\ proposal.risk_assessment = "low"
               /\ proposal.action_type = "click") => call.returned.approved
           /\ call.returned.modifications = EmptyDict
           /\ last_publish.message_type =
                  (IF call.returned.approved THEN ACTION_APPROVAL ELSE ACTION_REJECTION)
           /\ last_publish.content.approved = call.returned.approved

\* a click of low risk with confidence exactly 0.8 was approved, after a
\* high-risk proposal was rejected
C17_Witness ==
    /\ call.op = "validate_action"
    /\ call.action_proposal.content = ActionProposal("click", "low", 80)
    /\ call.returned.approved
    /\ Len(message_history) >= 2
    /\ message_history[Len(message_history)].message_type = ACTION_APPROVAL
    /\ message_history[Len(message_history) - 1].message_type = ACTION_REJECTION
    /\ message_history[Len(message_history) - 1].content.conditions # <<>>

\* C18: validate_plan returns true iff the plan's risk_level is not high or
\* it has at most 10 steps; it publishes a VALIDATION_REQUEST and then a
\* VALIDATION_RESULT whose valid field is the returned boolean and whose
\* in_response_to is the message id of the plan message it was given.
C18_PlanValidation ==
    /\ [](call.op = "validate_plan" =>
            LET plan == call.plan_message.content
                n == Len(message_history)
            IN /\ call.returned = (plan.risk_level # "high" \/ Len(plan.steps) <= 10)
               /\ n >= 2
               /\ message_history[n - 1].message_type = VALIDATION_REQUEST
               /\ message_history[n - 1].sender_id = ValidatorT1.agent_id
               /\ message_history[n].message_type = VALIDATION_RESULT
               /\ message_history[n].sender_id = ValidatorT1.agent_id
               /\ message_history[n].content.valid = call.returned
               /\ message_history[n].in_response_to = call.plan_message.message_id)
    /\ [][call'.op = "validate_plan" =>
              /\ Len(message_history') = Len(message_history) + 2
              /\ SubSeq(message_history', 1, Len(message_history)) = message_history]_vars

\* a plan of high risk with ten steps was accepted after one of high risk
\* with eleven steps was refused
C18_Witness ==
    /\ call.op = "validate_plan"
    /\ call.plan_message.content = PlanWith("high", 10)
    /\ call.returned
    /\ Len(message_history) = 4
    /\ message_history[2].message_type = VALIDATION_RESULT
    /\ ~message_history[2].content.valid
    /\ message_history[4].content.valid

(***************************************************************************)
(* Claims about the affordance branch of validate_and_filter_actions       *)
(* (checked under SpecGate)                                                *)
(***************************************************************************)
\* the input positions whose action is of type t and that no active guard
\* blocks
SurvivorsOfType(t) ==
    {i \in DOMAIN result.actions :
        result.actions[i].action_type = t /\ BlockingGuardsOf(i) = {}}

\* how many entries of the sequence of strings list are equal to w
RECURSIVE TimesIn(_, _)
TimesIn(w, list) ==
    IF list = <<>> THEN 0
    ELSE (IF Head(list) = w THEN 1 ELSE 0) + TimesIn(w, Tail(list))

NoAffordanceOfType(t) == \A k \in DOMAIN affordances : affordances[k].action_type # t

\* C21: an action that survives the guards is accepted with exactly one "no
\* affordance registered" warning when affordances are registered but none
\* is of the action's type, and with no such warning when no affordance is
\* registered at all; in neither case is it rejected.
C21_UnmatchedAccepted ==
    result.called =>
        \A i \in DOMAIN result.actions :
            LET t == result.actions[i].action_type
                w == "No affordance registered for action " \o t
            IN (BlockingGuardsOf(i) = {} /\ NoAffordanceOfType(t)) =>
                   /\ InFiltered(i)
                   /\ ~InRejected(i)
                   /\ affordances # <<>> =>
                          TimesIn(w, result.warnings) = Cardinality(SurvivorsOfType(t))
                   /\ affordances = <<>> => TimesIn(w, result.warnings) = 0

\* two terminate actions survive the guards while only click affordances
\* are registered: both are accepted, with one warning each
C21_Witness ==
    /\ result.called
    /\ affordances # <<>>
    /\ guards # <<>>
    /\ result.actions = <<Action(TERMINATE, None), Action(TERMINATE, None)>>
    /\ result.filtered_actions = result.actions
    /\ result.warnings = <<"No affordance registered for action terminate",
                           "No affordance registered for action terminate">>

\* the action at input position i survived the guards and its authoritative
\* affordance has a precondition that does not hold
FailsAuthoritative(i) ==
    /\ BlockingGuardsOf(i) = {}
    /\ MatchesOf(i) # {}
    /\ ~PreconditionsHold(Authoritative(i))

\* C22: when the preconditions of the authoritative affordance do not all
\* hold, the action is rejected and the reason paired with it is the
\* affordance's failure_reason metadata if the metadata defines one and the
\* generic message otherwise, so every rejected action carries a non-empty
\* reason string, also when the metadata holds other keys but no
\* failure_reason.
C22_RejectionReason ==
    result.called =>
        /\ \A i \in DOMAIN result.actions :
              FailsAuthoritative(i) =>
                  LET metadata == affordances[Authoritative(i)].metadata
                  IN InRejectedWith(i, IF metadata.failure_reason # Absent
                                       THEN metadata.failure_reason
                                       ELSE "Affordance preconditions not met")
        /\ \A f \in DOMAIN result.rejected_actions :
              result.rejected_actions[f][2] \notin {None, ""}

\* what the code pairs with the action: the generic message only when the
\* metadata is empty, and None when it holds other keys but no failure_reason
C22_ReasonOfNonEmptyMetadata ==
    result.called =>
        \A i \in DOMAIN result.actions :
            FailsAuthoritative(i) =>
                LET metadata == affordances[Authoritative(i)].metadata
                IN InRejectedWith(i,
                       IF metadata.failure_reason # Absent THEN metadata.failure_reason
                       ELSE IF metadata.other_keys THEN None
                       ELSE "Affordance preconditions not met")

\* an action was rejected by an affordance whose metadata holds other keys
\* but no failure_reason
C22_Witness ==
    /\ result.called
    /\ \E i \in DOMAIN result.actions :
          /\ FailsAuthoritative(i)
          /\ affordances[Authoritative(i)].metadata.failure_reason = Absent
          /\ affordances[Authoritative(i)].metadata.other_keys
          /\ InRejectedWith(i, None)

(***************************************************************************)
(* Claims about load_from_plan_config (checked under SpecReconcile)        *)
(***************************************************************************)
\* the blueprint lacks a field its action type requires
MissesRequiredField(blueprint) ==
    \/ blueprint.action_type = CLICK /\ blueprint.element_id \in {None, ""}
    \/ /\ blueprint.action_type = INPUT_TEXT
       /\ (blueprint.element_id \in {None, ""} \/ blueprint.text = None)
    \/ /\ blueprint.action_type = SELECT_OPTION
       /\ (blueprint.element_id \in {None, ""} \/ blueprint.option \in {None, ""})

\* the step is a load_from_plan_config call
IsLoad == call'.op = "load_from_plan_config" /\ LoadFromPlanConfig(call'.plan_config)

\* C23: loading a plan configuration whose fallback blueprint misses a
\* required field (a CLICK blueprint without element_id, an INPUT_TEXT
\* blueprint without text) reports an error to the caller that loaded it;
\* the blueprint is never silently dropped from the configured fallback list.
C23_BlueprintErrorReported ==
    [][IsLoad =>
          LET blueprints == call'.plan_config.fallback_actions
          IN /\ (\E i \in DOMAIN blueprints : MissesRequiredField(blueprints[i])) =>
                    call'.raised # None \/ call'.returned # None
             /\ (call'.raised = None /\ call'.returned = None) =>
                    Len(fallback_actions') = Len(blueprints)]_vars

\* what the code does: the call returns None and raises nothing, and the
\* configured fallback list holds the actions of the well-formed blueprints
\* only, in the order of the configuration
C23_BadBlueprintsDropped ==
    [][IsLoad =>
          LET blueprints == call'.plan_config.fallback_actions
              kept == SelectSeq(blueprints, LAMBDA b : ~MissesRequiredField(b))
          IN /\ call'.raised = None /\ call'.returned = None
             /\ Len(fallback_actions') = Len(kept)
             /\ \A i \in DOMAIN kept :
                   fallback_actions'[i].action_type = kept[i].action_type]_vars

\* a configuration of three blueprints, each missing a required field, was
\* loaded and left the fallback list empty
C23_Witness ==
    /\ call.op = "load_from_plan_config"
    /\ Len(call.plan_config.fallback_actions) = 3
    /\ \A i \in 1..3 : MissesRequiredField(call.plan_config.fallback_actions[i])
    /\ call.raised = None
    /\ fallback_actions = <<>>
    /\ ~result.called /\ ~reconciled.called

(***************************************************************************)
(* SpecFault: a planner on which guards and affordances are registered     *)
(* whose predicates raise when they are evaluated, and which validates     *)
(* batches against every environment.                                      *)
(***************************************************************************)
FaultRegisterGuard ==
    \E k \in DOMAIN FaultGuardPool :
        /\ \A j \in DOMAIN guards : guards[j] # FaultGuardPool[k]
        /\ RegisterGuard(FaultGuardPool[k])
        /\ UNCHANGED <<busVars, swarmVars>>

FaultRegisterAffordance ==
    \E k \in DOMAIN FaultAffordancePool :
        /\ \A j \in DOMAIN affordances : affordances[j] # FaultAffordancePool[k]
        /\ RegisterAffordance(FaultAffordancePool[k])
        /\ UNCHANGED <<busVars, swarmVars>>

FaultValidate ==
    \E actions \in GateActionLists, e \in DOMAIN EnvPool :
        /\ ValidateAndFilterActions(actions, EnvPool[e].page, EnvPool[e].url)
        /\ UNCHANGED <<busVars, swarmVars>>

FaultClear == Clear /\ UNCHANGED <<busVars, swarmVars>>

NextFault ==
    \/ FaultRegisterGuard
    \/ FaultRegisterAffordance
    \/ FaultValidate
    \/ FaultClear

SpecFault == InitGate /\ [][NextFault]_vars

(***************************************************************************)
(* Claims about predicates whose evaluation fails (SpecFault)              *)
(***************************************************************************)
\* the evaluation of a predicate of guard k, of a precondition of affordance
\* k, fails in the environment of the call
GuardPredicateFails(k) ==
    \E j \in DOMAIN guards[k].predicates :
        EvaluationFails(guards[k].predicates[j], result.page, result.url)

PreconditionFails(k) ==
    \E j \in DOMAIN affordances[k].preconditions :
        EvaluationFails(affordances[k].preconditions[j], result.page, result.url)

\* every predicate of guard k that can be evaluated is true
GuardActiveButForFailures(k) ==
    \A j \in DOMAIN guards[k].predicates :
        \/ EvaluationFails(guards[k].predicates[j], result.page, result.url)
        \/ PredicateEvaluate(guards[k].predicates[j], result.page, result.url)

\* C24: the safety gate fails closed on evaluation errors.  An action is
\* never accepted because a predicate failed to evaluate, neither when the
\* failing predicate belongs to the action's authoritative affordance nor
\* when it belongs to a guard that blocks the action's type.
C24_FailsClosed ==
    result.called =>
        \A i \in DOMAIN result.actions :
            /\ (/\ BlockingGuardsOf(i) = {}
                /\ MatchesOf(i) # {}
                /\ PreconditionFails(Authoritative(i))) => ~InFiltered(i)
            /\ (\E k \in DOMAIN guards :
                   /\ result.actions[i].action_type \in Range(guards[k].action_types_blocked)
                   /\ GuardPredicateFails(k)
                   /\ GuardActiveButForFailures(k)) => ~InFiltered(i)

\* the half of C24 that holds: a failing precondition of the authoritative
\* affordance rejects the action
C24_AffordanceFailsClosed ==
    result.called =>
        \A i \in DOMAIN result.actions :
            (/\ BlockingGuardsOf(i) = {}
             /\ MatchesOf(i) # {}
             /\ PreconditionFails(Authoritative(i))) => InRejected(i) /\ ~InFiltered(i)

\* what the code does with a guard: a guard one of whose predicates fails to
\* evaluate is not active, so it rejects no action
C24_GuardFailsOpen ==
    result.called =>
        \A i \in DOMAIN result.actions : \A k \in DOMAIN guards :
            GuardPredicateFails(k) =>
                /\ k \notin BlockingGuardsOf(i)
                /\ ~InRejectedWith(i, GuardReason(guards[k]))

\* a terminate was accepted although the guard that blocks terminate has a
\* true predicate and one that failed to evaluate
C24_Witness ==
    /\ result.called
    /\ \E i \in DOMAIN result.actions : \E k \in DOMAIN guards :
          /\ result.actions[i].action_type = TERMINATE
          /\ TERMINATE \in Range(guards[k].action_types_blocked)
          /\ Len(guards[k].predicates) = 2
          /\ GuardPredicateFails(k)
          /\ GuardActiveButForFailures(k)
          /\ InFiltered(i)

\* the predicates that are registered with a guard or an affordance
RegisteredPredicates ==
    UNION {Range(guards[k].predicates) : k \in DOMAIN guards}
        \cup UNION {Range(affordances[k].preconditions) : k \in DOMAIN affordances}

\* C28: a predicate whose evaluation fails (a url_pattern with a malformed
\* regular expression, a custom predicate whose expression raises) evaluates
\* to false and raises nothing, so validate_and_filter_actions still returns
\* a result that classifies every action of the batch.
C28_FailureIsFalse ==
    result.called =>
        /\ \A p \in RegisteredPredicates :
              EvaluationFails(p, result.page, result.url) =>
                  ~Evaluate(p, result.page, result.url)
        /\ \A k \in DOMAIN guards :
              GuardPredicateFails(k) =>
                  \A f \in DOMAIN result.rejected_actions :
                      result.rejected_actions[f][2] # GuardReason(guards[k])
        /\ Len(result.filtered_actions) + Len(result.rejected_actions) = Len(result.actions)
        /\ \A i \in DOMAIN result.actions : InFiltered(i) # InRejected(i)

\* a batch of two was classified, one action accepted and one rejected,
\* while a malformed pattern and a raising expression were both evaluated
C28_Witness ==
    /\ result.called
    /\ Len(result.filtered_actions) = 1 /\ Len(result.rejected_actions) = 1
    /\ \E p, q \in RegisteredPredicates :
          /\ p.predicate_type = URL_PATTERN /\ q.predicate_type = CUSTOM
          /\ EvaluationFails(p, result.page, result.url)
          /\ EvaluationFails(q, result.page, result.url)

(***************************************************************************)
(* SpecEvaluate: PlannerPredicate.evaluate applied to every predicate of   *)
(* a pool and every snapshot of at most MaxElements elements.              *)
(***************************************************************************)
MaxElements == 2

\* the elements of the snapshots: a submit button with each value of the
\* disabled attribute, and another element
EvalElements ==
    {SubmitButton("", disabled) : disabled \in {Absent, PyTrue, "true", "disabled", "false"}}
        \cup {Element("email_input", "input", "", "", Absent)}

\* the snapshots of at most n elements, the empty one included
RECURSIVE PagesOver(_)
PagesOver(n) ==
    IF n = 0 THEN {<<>>}
    ELSE PagesOver(n - 1) \cup {Append(l, e) : l \in PagesOver(n - 1), e \in EvalElements}

EvalPages == {Page(elems) : elems \in PagesOver(MaxElements)}

EvalPredicates ==
    {Predicate(ELEMENT_EXISTS, "submit_btn", NoValue),
     Predicate(ELEMENT_ENABLED, "submit_btn", NoValue),
     Predicate(ELEMENT_COUNT, "submit_btn", NoValue)}
        \cup {Predicate(ELEMENT_COUNT, "submit_btn", Value(n)) : n \in 0..MaxElements}

EvaluatePredicate ==
    /\ \E p \in EvalPredicates, page \in EvalPages :
          call' = [op |-> "evaluate", predicate |-> p, scraped_page |-> page,
                   returned |-> PredicateEvaluate(p, page, None)]
    /\ UNCHANGED <<plannerVars, busVars, coordinatorVars, coordination>>

NextEvaluate == EvaluatePredicate

SpecEvaluate == InitGate /\ [][NextEvaluate]_vars

(***************************************************************************)
(* Claims about PlannerPredicate.evaluate (SpecEvaluate)                   *)
(***************************************************************************)
\* the positions of the snapshot of the call whose element has the id the
\* predicate targets, and the ones among them whose element is disabled
TargetPositions ==
    {i \in DOMAIN call.scraped_page.elements :
        call.scraped_page.elements[i].id = call.predicate.target}

DisabledPositions ==
    {i \in TargetPositions :
        call.scraped_page.elements[i].attributes.disabled \in {PyTrue, "true", "disabled"}}

\* the specified value of the predicate of the call; for element_enabled
\* with some elements of the id disabled and some not, the returned one
SpecifiedValue ==
    LET p == call.predicate
        count == Cardinality(TargetPositions)
    IN CASE p.predicate_type = ELEMENT_EXISTS -> count > 0
         [] p.predicate_type = ELEMENT_ENABLED ->
                IF count = 0 \/ DisabledPositions = TargetPositions THEN FALSE
                ELSE IF DisabledPositions = {} THEN TRUE
                ELSE call.returned
         [] p.predicate_type = ELEMENT_COUNT ->
                IF p.expected_value # NoValue THEN count = p.expected_value[1]
                ELSE count > 0

\* C25: for every snapshot over a bounded set of elements, the snapshot with
\* no elements included, the evaluator agrees with the specified semantics:
\* element_exists is true iff an element with id = target is present;
\* element_enabled is false if the element is absent or its disabled
\* attribute is true, "true" or "disabled", and true otherwise;
\* element_count is (count of the elements with id = target) =
\* expected_value when expected_value is given, also when it is 0, and
\* count > 0 when it is not.
C25_EvaluatorAgrees ==
    call.op = "evaluate" => call.returned = SpecifiedValue

\* the evaluator agrees with the specified semantics on every snapshot that
\* has an element
C25_AgreesOnNonEmpty ==
    (call.op = "evaluate" /\ call.scraped_page.elements # <<>>) =>
        call.returned = SpecifiedValue

\* on the snapshot with no elements every predicate is false, the
\* element_count of expected_value 0 included
C25_EmptySnapshotIsFalse ==
    (call.op = "evaluate" /\ call.scraped_page.elements = <<>>) => ~call.returned

\* a count of 0 was expected and found on a snapshot that has an element
C25_Witness ==
    /\ call.op = "evaluate"
    /\ call.predicate = Predicate(ELEMENT_COUNT, "submit_btn", Value(0))
    /\ Len(call.scraped_page.elements) = MaxElements
    /\ call.returned

(***************************************************************************)
(* SpecFilter: envelopes that differ in every field a filter can name are  *)
(* published on a bus whose history is then read through filters; the      *)
(* caller may empty the list it was returned.                              *)
(***************************************************************************)
\* an AgentMessage with its timestamp
StampedMessage(message, timestamp) ==
    [message_id |-> message.message_id,
     sender_role |-> message.sender_role, sender_id |-> message.sender_id,
     recipient_role |-> message.recipient_role, recipient_id |-> message.recipient_id,
     message_type |-> message.message_type, content |-> message.content,
     task_id |-> message.task_id, step_id |-> message.step_id,
     priority |-> message.priority, requires_response |-> message.requires_response,
     in_response_to |-> message.in_response_to,
     timestamp |-> timestamp]

FilterMessages ==
    << StampedMessage(AgentMessage("msg-1", PlannerAgent("t1", "s1"), None, None, THOUGHT,
                                   EmptyDict, 0, FALSE, None), 1),
       StampedMessage(AgentMessage("msg-2", ExecutorAgent("t2", "s2"), VALIDATOR, None,
                                   ACTION_PROPOSAL, EmptyDict, 8, TRUE, None), 2),
       StampedMessage(AgentMessage("msg-3", ValidatorAgent("t1", "s1"), None, None,
                                   ACTION_APPROVAL, EmptyDict, 9, FALSE, "msg-2"), 2),
       StampedMessage(AgentMessage("msg-4", PlannerAgent("t1", "s1"), VALIDATOR, None, PLAN,
                                   EmptyDict, 5, FALSE, None), 3) >>

Given(value) == [given |-> TRUE, value |-> value]

\* no filter, the filter with nothing set, one filter per criterion, and
\* filters that combine criteria
FilterPool ==
    { NoValue,
      Value(MessageFilter(None, None, None, None, None, NoTime, NoTime, NoPriority)),
      Value(MessageFilter(PLANNER, None, None, None, None, NoTime, NoTime, NoPriority)),
      Value(MessageFilter(None, VALIDATOR, None, None, None, NoTime, NoTime, NoPriority)),
      Value(MessageFilter(None, None, ACTION_PROPOSAL, None, None, NoTime, NoTime, NoPriority)),
      Value(MessageFilter(None, None, None, "t1", None, NoTime, NoTime, NoPriority)),
      Value(MessageFilter(None, None, None, None, "s2", NoTime, NoTime, NoPriority)),
      Value(MessageFilter(None, None, None, None, None, Given(2), NoTime, NoPriority)),
      Value(MessageFilter(None, None, None, None, None, NoTime, Given(2), NoPriority)),
      Value(MessageFilter(None, None, None, None, None, Given(2), Given(2), NoPriority)),
      Value(MessageFilter(None, None, None, None, None, NoTime, NoTime, Given(0))),
      Value(MessageFilter(None, None, None, None, None, NoTime, NoTime, Given(8))),
      Value(MessageFilter(PLANNER, None, None, "t1", None, Given(2), NoTime, Given(5))) }

FilterPublish ==
    /\ Len(published) < MaxPublish
    /\ \E k \in DOMAIN FilterMessages : Publish(FilterMessages[k])
    /\ call' = [op |-> "publish"]
    /\ UNCHANGED <<plannerVars, coordinatorVars, coordination>>

FilterGet ==
    /\ \E filter \in FilterPool :
          call' = [op |-> "get_message_history", filter |-> filter,
                   returned |-> GetMessageHistoryOf(filter), modified |-> FALSE]
    /\ UNCHANGED <<plannerVars, busVars, coordinatorVars, coordination>>

\* the caller empties the list it was returned (list.clear()): the list of
\* the bus is emptied with it only if it is the same object
FilterModify ==
    /\ call.op = "get_message_history"
    /\ ~call.modified
    /\ call' = [call EXCEPT !.returned.list = <<>>, !.modified = TRUE]
    /\ message_history' = IF call.returned.is_history THEN <<>> ELSE message_history
    /\ UNCHANGED <<max_history_size, subscribers, role_subscribers,
                   message_type_subscribers, task_subscribers, broadcast_subscribers,
                   stats, queues, published, cleared_at, last_publish,
                   message_handlers>>
    /\ UNCHANGED <<plannerVars, coordinatorVars, coordination>>

NextFilter ==
    \/ FilterPublish
    \/ FilterGet
    \/ FilterModify

\* a bus that keeps every envelope published here, or the last two
InitFilter ==
    /\ \E size \in BusSizes : InitBus(size)
    /\ InitPlanner
    /\ InitNoSwarm

SpecFilter == InitFilter /\ [][NextFilter]_vars

(***************************************************************************)
(* Claims about get_message_history(filter) (SpecFilter)                   *)
(***************************************************************************)
\* the envelope matches every field that is set in the filter
MatchesFilter(msg, f) ==
    /\ f.sender_role \in {None, msg.sender_role}
    /\ f.recipient_role \in {None, msg.recipient_role}
    /\ f.message_type \in {None, msg.message_type}
    /\ f.task_id \in {None, msg.task_id}
    /\ f.step_id \in {None, msg.step_id}
    /\ f.from_timestamp.given => f.from_timestamp.value <= msg.timestamp
    /\ f.to_timestamp.given => msg.timestamp <= f.to_timestamp.value
    /\ f.min_priority.given => msg.priority >= f.min_priority.value

\* the positions of the history whose envelope the filter argument selects
SelectedPositions(filter) ==
    {i \in DOMAIN message_history :
        filter = NoValue \/ MatchesFilter(message_history[i], filter[1])}

\* list is the subsequence of the history at the positions of set, in order
IsSubsequenceAt(list, set) ==
    /\ Len(list) = Cardinality(set)
    /\ \A i \in set :
          list[Cardinality({j \in set : j <= i})] = message_history[i]

\* C26: get_message_history(filter) returns the order-preserving
\* subsequence of the history made of exactly the envelopes that match every
\* field set in the filter (sender role, recipient role, message type, task
\* id, step id, time range, minimum priority), fields left unset matching
\* everything; the call changes no bus state, and the returned list is a
\* copy whose modification does not change the history.
C26_FilteredHistory ==
    /\ []((call.op = "get_message_history" /\ ~call.modified) =>
              IsSubsequenceAt(call.returned.list, SelectedPositions(call.filter)))
    /\ [][call'.op = "get_message_history" => busVars' = busVars]_vars

\* a history of three envelopes, two of them stamped 2, was read with the
\* time range from 2 to 2, and the returned list of two was then emptied
C26_Witness ==
    /\ call.op = "get_message_history"
    /\ call.modified
    /\ call.filter # NoValue
    /\ call.filter[1].from_timestamp = Given(2) /\ call.filter[1].to_timestamp = Given(2)
    /\ Len(message_history) = 3
    /\ Cardinality(SelectedPositions(call.filter)) = 2
    /\ message_history[1].timestamp # 2

(***************************************************************************)
(* Claims about request_consensus (SpecConsensus)                          *)
(***************************************************************************)
\* SpecConsensus: the coordinators of two tasks, enabled or not, are
\* started and stopped, and their callers request consensus
NextConsensus ==
    \/ SwarmStart
    \/ SwarmStop
    \/ SwarmConsensus

SpecConsensus == InitSwarm /\ [][NextConsensus]_vars

\* the step is a call of request_consensus
IsConsensus == call'.op = "request_consensus"

\* C29: request_consensus returns none when options is empty and the first
\* option otherwise, whether coordination is enabled or not; when
\* coordination is enabled and options is non-empty it publishes exactly one
\* envelope, a CONSENSUS_REQUEST with no recipient role and no recipient id,
\* and when coordination is disabled or options is empty it publishes
\* nothing.
C29_ConsensusFirstOption ==
    /\ [](call.op = "request_consensus" =>
              /\ call.options = <<>> => call.returned = None
              /\ call.options # <<>> => call.returned = call.options[1])
    /\ [][IsConsensus =>
            IF enable_swarm /\ call'.options # <<>>
            THEN /\ Len(published') = Len(published) + 1
                 /\ SubSeq(published', 1, Len(published)) = published
                 /\ published'[Len(published')].message_type = CONSENSUS_REQUEST
                 /\ published'[Len(published')].recipient_role = None
                 /\ published'[Len(published')].recipient_id = None
            ELSE published' = published /\ message_history' = message_history]_vars

\* with coordination enabled, a request with two options came after another
\* envelope: "retry" was returned and the request is the last one published
C29_Witness ==
    /\ enable_swarm
    /\ call.op = "request_consensus"
    /\ call.options = <<"retry", "skip">>
    /\ call.returned = "retry"
    /\ Len(published) >= 2
    /\ published[Len(published)].message_type = CONSENSUS_REQUEST
    /\ published[Len(published)].content.options = call.options
    /\ published[1].message_type # CONSENSUS_REQUEST

(***************************************************************************)
(* SpecHandlers: handlers that return and handlers that raise are          *)
(* registered on a bus with subscribers, and envelopes are published.      *)
(***************************************************************************)
\* handlers are added while fewer than this are registered
MaxHandlers == 2

\* a thought of task t1 with no recipient, and a proposal of task t2 for the
\* validator role
HandlerMessages == SubSeq(FilterMessages, 1, 2)

\* AgentMessageBus.add_message_handler
AddMessageHandler(handler) ==
    /\ message_handlers' = Append(message_handlers, handler)
    /\ UNCHANGED <<max_history_size, message_history, subscribers, role_subscribers,
                   message_type_subscribers, task_subscribers, broadcast_subscribers,
                   stats, queues, published, cleared_at, last_publish>>

HandlersAdd ==
    /\ Len(message_handlers) < MaxHandlers
    /\ \E raises \in BOOLEAN : AddMessageHandler(MessageHandler(raises))
    /\ call' = [op |-> "add_message_handler"]
    /\ UNCHANGED <<plannerVars, coordinatorVars, coordination>>

HandlersSubscribe ==
    /\ \E k \in DOMAIN SubscriptionPool :
          /\ NotYetSubscribed(k)
          /\ Subscribe(SubscriptionPool[k])
    /\ call' = [op |-> "subscribe"]
    /\ UNCHANGED <<plannerVars, coordinatorVars, coordination>>

\* await bus.publish(message): the call and the exception that left it
HandlersPublish ==
    /\ Len(published) < MaxPublish
    /\ \E k \in DOMAIN HandlerMessages :
          /\ Publish(HandlerMessages[k])
          /\ call' = [op |-> "publish", message |-> HandlerMessages[k],
                      raised |-> BusAfterPublish(BusNow, HandlerMessages[k]).raised]
    /\ UNCHANGED <<plannerVars, coordinatorVars, coordination>>

NextHandlers ==
    \/ HandlersAdd
    \/ HandlersSubscribe
    \/ HandlersPublish

\* a bus of the default size, which keeps every envelope published here
InitHandlers ==
    /\ InitBus(DefaultMaxHistorySize)
    /\ InitPlanner
    /\ InitNoSwarm

SpecHandlers == InitHandlers /\ [][NextHandlers]_vars

(***************************************************************************)
(* Claims about handlers that raise (SpecHandlers)                         *)
(***************************************************************************)
\* a handler that raises is registered
SomeHandlerRaises == \E i \in DOMAIN message_handlers : message_handlers[i].raises

\* the queues an envelope goes to, read off the subscriptions: the
\* broadcast queues, the queues of its recipient id, of its recipient role,
\* of its type and of its task
DeliverySetOf(message) ==
    {q \in DOMAIN queues :
        LET args == queues[q].args
        IN \/ args.broadcast
           \/ /\ ~args.broadcast
              /\ \/ Truthy(args.agent_id) /\ args.agent_id = message.recipient_id
                 \/ Truthy(args.role) /\ args.role = message.recipient_role
                 \/ Truthy(args.message_type) /\ args.message_type = message.message_type
                 \/ Truthy(args.task_id) /\ args.task_id = message.task_id}

\* the step is a publish call made while a handler that raises is registered
IsPublishWithRaisingHandler == call'.op = "publish" /\ SomeHandlerRaises

\* C27: if a registered synchronous handler raises while publish processes
\* an envelope, publish still completes without raising: the envelope is
\* appended to the history, the sent counter grows by one, every handler,
\* the ones registered after the raising one included, is called with the
\* envelope, and the envelope is put on every queue of its delivery set and
\* on no other; later publishes on the same bus behave the same way.
C27_HandlerErrorsSwallowed ==
    [][IsPublishWithRaisingHandler =>
          /\ call'.raised = None
          /\ max_history_size > 0 =>
                 message_history'[Len(message_history')] = call'.message
          /\ stats'.messages_sent = stats.messages_sent + 1
          /\ \A i \in DOMAIN message_handlers :
                 message_handlers'[i].calls =
                     Append(message_handlers[i].calls, call'.message.message_id)
          /\ \A q \in DOMAIN queues :
                 queues'[q].items =
                     IF q \in DeliverySetOf(call'.message)
                     THEN Append(queues[q].items, call'.message)
                     ELSE queues[q].items]_vars

\* the first of two handlers raises; two envelopes were published after
\* both were registered, each handler was called with both, and a queue
\* holds both
C27_Witness ==
    /\ call.op = "publish"
    /\ Len(message_handlers) = 2
    /\ message_handlers[1].raises /\ ~message_handlers[2].raises
    /\ Len(message_handlers[1].calls) = 2
    /\ message_handlers[2].calls = message_handlers[1].calls
    /\ stats.messages_sent = 2
    /\ \E q \in DOMAIN queues : Len(queues[q].items) = 2

(***************************************************************************)
(* SpecClear: a planner on which guards and affordances are registered and *)
(* whose caller clears the registries by the methods named clear,          *)
(* clear_affordances and clear_guards.                                     *)
(***************************************************************************)
\* the public methods of HybridPlanner
HybridPlannerMethods ==
    { "register_predicate", "register_affordance", "register_guard", "clear",
      "validate_and_filter_actions", "reconcile_with_fallback",
      "extract_affordances_from_page", "export_audit_log", "load_from_block",
      "load_from_plan_config" }

ClearingCalls == {"clear", "clear_affordances", "clear_guards"}

\* planner.<name>() for a name with no arguments: the attribute lookup
\* raises AttributeError when the class has no such method, and clear is
\* the one method here that takes no arguments
CallByName(name) ==
    IF name \notin HybridPlannerMethods
    THEN /\ call' = [op |-> name, raised |-> "AttributeError"]
         /\ UNCHANGED plannerVars
    ELSE /\ name = "clear"
         /\ Clear
         /\ call' = [op |-> name, raised |-> None]

ClearRegisterGuard ==
    /\ \E k \in DOMAIN GuardPool :
          /\ \A j \in DOMAIN guards : guards[j] # GuardPool[k]
          /\ RegisterGuard(GuardPool[k])
    /\ call' = [op |-> "register_guard", raised |-> None]
    /\ UNCHANGED <<busVars, coordinatorVars, coordination>>

ClearRegisterAffordance ==
    /\ \E k \in DOMAIN AffordancePool :
          /\ \A j \in DOMAIN affordances : affordances[j] # AffordancePool[k]
          /\ RegisterAffordance(AffordancePool[k])
    /\ call' = [op |-> "register_affordance", raised |-> None]
    /\ UNCHANGED <<busVars, coordinatorVars, coordination>>

ClearCall ==
    /\ \E name \in ClearingCalls : CallByName(name)
    /\ UNCHANGED <<busVars, coordinatorVars, coordination>>

NextClear ==
    \/ ClearRegisterGuard
    \/ ClearRegisterAffordance
    \/ ClearCall

SpecClear == InitGate /\ [][NextClear]_vars

(***************************************************************************)
(* Claims about clearing the registries (SpecClear)                        *)
(***************************************************************************)
\* C30: the affordance registry and the guard registry can be cleared
\* independently: clear_affordances empties the affordance registry and
\* leaves every registered guard in place, and clear_guards empties the
\* guard registry.
C30_ClearedIndependently ==
    [][/\ call'.op = "clear_affordances" => affordances' = <<>> /\ guards' = guards
       /\ call'.op = "clear_guards" => guards' = <<>>]_vars

\* C30, what the code does: the planner has no clear_affordances and no
\* clear_guards, so both calls raise AttributeError and change nothing;
\* clear() is the one clearing method, and it empties both registries
\* together.
C30_ClearEmptiesBoth ==
    [][/\ call'.op \in {"clear_affordances", "clear_guards"} =>
              /\ call'.raised = "AttributeError"
              /\ plannerVars' = plannerVars
       /\ call'.op = "clear" =>
              /\ call'.raised = None
              /\ affordances' = <<>> /\ guards' = <<>>]_vars

\* clear_affordances was called on a planner with an affordance and a guard
\* registered: both are still there
C30_Witness ==
    /\ call.op = "clear_affordances"
    /\ Len(affordances) = 1
    /\ Len(guards) = 1

(***************************************************************************)
(* SpecBatch: the planner of SpecGate with loop_detection_window 1, so     *)
(* that the action history changes from one validation call to the next.   *)
(***************************************************************************)
InitBatch ==
    /\ InitPlannerWindow(1)
    /\ InitBus(DefaultMaxHistorySize)
    /\ InitNoSwarm

\* the guards and the affordances are registered in the order of the pools
BatchRegisterGuard ==
    /\ Len(guards) < Len(GuardPool)
    /\ RegisterGuard(GuardPool[Len(guards) + 1])
    /\ UNCHANGED <<busVars, swarmVars>>

BatchRegisterAffordance ==
    /\ Len(affordances) < Len(AffordancePool)
    /\ RegisterAffordance(AffordancePool[Len(affordances) + 1])
    /\ UNCHANGED <<busVars, swarmVars>>

BatchValidate ==
    \E actions \in GateActionLists, e \in DOMAIN EnvPool :
        /\ ValidateAndFilterActions(actions, EnvPool[e].page, EnvPool[e].url)
        /\ UNCHANGED <<busVars, swarmVars>>

NextBatch ==
    \/ BatchRegisterGuard
    \/ BatchRegisterAffordance
    \/ BatchValidate

SpecBatch == InitBatch /\ [][NextBatch]_vars

(***************************************************************************)
(* Claims about batches (SpecBatch)                                        *)
(***************************************************************************)
\* filtered_actions and rejected_actions of a call on the list, with the
\* registries, the snapshot and the URL of the last call
FilteredOf(list) ==
    FilteredActions(list, OutcomesFrom(list, result.page, result.url, 1))

RejectedOf(list) ==
    RejectedActions(list, OutcomesFrom(list, result.page, result.url, 1))

\* the ways to split the action list of the last call in two
SplitsOfLast == 0..Len(result.actions)

\* C31: the verdict and the rejection reason of an action depend only on
\* the action, the registered guards and affordances, the snapshot and the
\* URL, not on the other actions of the batch or on earlier calls: for every
\* split of the validated list into A followed by B, filtered_actions is
\* the filtered actions of A followed by those of B, and rejected_actions
\* the rejected actions of A followed by those of B.
C31_BatchIsConcatenation ==
    result.called =>
        \A k \in SplitsOfLast :
            LET A == SubSeq(result.actions, 1, k)
                B == SubSeq(result.actions, k + 1, Len(result.actions))
            IN /\ result.filtered_actions = FilteredOf(A) \o FilteredOf(B)
               /\ result.rejected_actions = RejectedOf(A) \o RejectedOf(B)

\* a batch of a rejected click followed by an accepted terminate was
\* validated after an earlier call had put an entry in the history
C31_Witness ==
    /\ result.called
    /\ Len(result.actions) = 2
    /\ result.history_before # <<>>
    /\ Len(result.rejected_actions) = 1
    /\ result.rejected_actions[1][1] = result.actions[1]
    /\ result.filtered_actions = <<result.actions[2]>>

(***************************************************************************)
(* Claims about in_response_to (SpecPlanning)                              *)
(***************************************************************************)
\* positions of the envelopes published before position i that carry the id
PublishedBefore(i, id) == {j \in 1..(i - 1) : published[j].message_id = id}

\* positions of the published envelopes of a type that answer another one
ResponsesOfType(type) ==
    {i \in DOMAIN published :
        published[i].message_type = type /\ published[i].in_response_to # None}

\* C32: in enabled mode the VALIDATION_RESULT that coordinate_planning
\* causes to be published has in_response_to equal to the message id of the
\* PLAN envelope the planner published in the same call, and every
\* in_response_to found on the bus is the id of an envelope published
\* earlier on the bus.
C32_ResponsesNameEnvelopes ==
    \A i \in DOMAIN published :
        /\ published[i].in_response_to # None =>
               PublishedBefore(i, published[i].in_response_to) # {}
        /\ published[i].message_type = VALIDATION_RESULT =>
               \E j \in PublishedBefore(i, published[i].in_response_to) :
                   /\ published[j].message_type = PLAN
                   /\ published[j].task_id = published[i].task_id

\* C32, what the code does: the verdict on an action names the
\* ACTION_PROPOSAL envelope published before it, whose id the coordinator
\* reuses; the VALIDATION_RESULT of a plan names the id of the plan message
\* the coordinator builds again, which no published envelope carries.
C32_PlanResponsesNameNoEnvelope ==
    /\ \A i \in ResponsesOfType(VALIDATION_RESULT) :
           \A j \in DOMAIN published :
               published[j].message_id # published[i].in_response_to
    /\ \A i \in ResponsesOfType(ACTION_APPROVAL) \cup ResponsesOfType(ACTION_REJECTION) :
           \E j \in PublishedBefore(i, published[i].in_response_to) :
               published[j].message_type = ACTION_PROPOSAL
    /\ \A i \in DOMAIN published :
           published[i].in_response_to # None =>
               published[i].message_type \in
                   {VALIDATION_RESULT, ACTION_APPROVAL, ACTION_REJECTION}

\* coordinate_planning and coordinate_action_execution have both published
\* their answers
C32_Witness ==
    /\ ResponsesOfType(VALIDATION_RESULT) # {}
    /\ ResponsesOfType(ACTION_APPROVAL) # {}
    /\ \E i \in DOMAIN published : published[i].message_type = PLAN

(***************************************************************************)
(* SpecFallback: a planner loaded from a plan configuration that holds     *)
(* guards and fallback actions; every validation is reconciled with a      *)
(* fallback list of the caller, or with none.                              *)
(***************************************************************************)
FallbackConfigPool ==
    << PlanConfig(<<>>, <<GuardPool[1]>>,
                  <<Blueprint(TERMINATE, None, None, None),
                    Blueprint(WAIT, None, None, None)>>, NoValue),
       PlanConfig(<<AffordancePool[1]>>, <<GuardPool[2]>>, <<>>, NoValue) >>

SuppliedPool ==
    {NoneList, List(<<Action(CLICK, "submit_btn"), Action(COMPLETE, None)>>)}

FallbackLoad ==
    /\ \E k \in DOMAIN FallbackConfigPool : LoadFromPlanConfig(FallbackConfigPool[k])
    /\ call' = [op |-> "load_from_plan_config"]
    /\ UNCHANGED <<busVars, coordinatorVars, coordination>>

FallbackValidate ==
    /\ \E actions \in GateActionLists, e \in DOMAIN EnvPool :
          ValidateAndFilterActions(actions, EnvPool[e].page, EnvPool[e].url)
    /\ call' = [op |-> "validate_and_filter_actions"]
    /\ UNCHANGED <<busVars, coordinatorVars, coordination>>

\* reconcile the result of the validation that has just been made; the call
\* record keeps what was validated
FallbackReconcile ==
    /\ result.called
    /\ \E fallback \in SuppliedPool : Reconcile(result, fallback)
    /\ call' = [op |-> "reconcile_with_fallback", actions |-> result.actions,
                page |-> result.page, url |-> result.url]
    /\ UNCHANGED <<busVars, coordinatorVars, coordination>>

NextFallback ==
    \/ FallbackLoad
    \/ FallbackValidate
    \/ FallbackReconcile

SpecFallback == InitGate /\ [][NextFallback]_vars

(***************************************************************************)
(* Claims about fallback lists (SpecFallback)                              *)
(***************************************************************************)
\* the last call reconciled a validation that rejected every action of a
\* non-empty batch
ReconciledAllRejected ==
    /\ call.op = "reconcile_with_fallback"
    /\ call.actions # <<>>
    /\ reconciled.filtered_actions = <<>>

\* the fallback list reconcile_with_fallback falls back on
ChosenFallback ==
    IF reconciled.fallback.given /\ reconciled.fallback.list # <<>>
    THEN reconciled.fallback.list
    ELSE fallback_actions

\* positions of the returned list whose action an active guard blocks under
\* the snapshot and the URL that were validated
BlockedReturned ==
    {i \in DOMAIN reconciled.returned :
        BlockingGuard(reconciled.returned[i], call.page, call.url) # 0}

\* C33: when validation rejected every action, reconcile_with_fallback
\* returns the caller-supplied fallback list, or else the planner-configured
\* one, verbatim: every action of that list is returned at its position,
\* the ones an active guard blocks under the validated snapshot included,
\* and the call changes neither the registries nor the action history.
C33_FallbackVerbatim ==
    /\ [](ReconciledAllRejected =>
              /\ Len(reconciled.returned) = Len(ChosenFallback)
              /\ \A i \in DOMAIN ChosenFallback :
                     reconciled.returned[i] = ChosenFallback[i])
    /\ [][call'.op = "reconcile_with_fallback" =>
              /\ guards' = guards /\ affordances' = affordances
              /\ action_history' = action_history
              /\ fallback_actions' = fallback_actions]_vars

\* the guard on the submit button rejected a terminate action, and the
\* configured fallback list that was returned holds a terminate action,
\* which the same guard blocks under the same snapshot
C33_Witness ==
    /\ ReconciledAllRejected
    /\ ~reconciled.fallback.given
    /\ reconciled.returned = fallback_actions
    /\ BlockedReturned = {1}
    /\ Len(reconciled.returned) = 2
    /\ reconciled.returned[1].action_type = TERMINATE

\* the same with the list the caller supplied, whose click the guard blocks
C33_WitnessSupplied ==
    /\ ReconciledAllRejected
    /\ reconciled.fallback.given
    /\ reconciled.returned = reconciled.fallback.list
    /\ BlockedReturned = {1}

(***************************************************************************)
(* extract_affordances_from_page                                           *)
(***************************************************************************)
\* an element with a tag, an onclick attribute and a type attribute
ElementOf(id, tag, onclick, type) ==
    [id |-> id, tagName |-> tag, text |-> "",
     attributes |-> [style |-> Absent, disabled |-> Absent,
                     onclick |-> onclick, type |-> type]]

\* PlannerAffordance(action_type, element_id, preconditions=[visible, enabled])
ExtractedAffordance(action_type, element_id) ==
    [action_type |-> action_type, element_id |-> element_id,
     preconditions |-> <<Predicate(ELEMENT_VISIBLE, element_id, NoValue),
                         Predicate(ELEMENT_ENABLED, element_id, NoValue)>>,
     priority |-> 0,
     metadata |-> [failure_reason |-> Absent, other_keys |-> FALSE]]

\* (value or "").lower()
LowerOr(value, default) == Lower(IF Truthy(AttrGet(value, None)) THEN value ELSE default)

TextLikeTypes == {"text", "email", "password", "tel", "search", "url"}

\* the loop body when the tag and the type are compared as they are written
AffordancesOfElementCaseSensitive(element) ==
    IF ~Truthy(element.id) THEN <<>>
    ELSE LET tag_name == IF Truthy(element.tagName) THEN element.tagName ELSE ""
             input_type == IF Truthy(AttrGet(element.attributes.type, None))
                           THEN element.attributes.type ELSE "text"
         IN (IF tag_name \in {"button", "a"} \/ Truthy(AttrGet(element.attributes.onclick, None))
             THEN <<ExtractedAffordance(CLICK, element.id)>> ELSE <<>>)
            \o (IF tag_name \in {"input", "textarea"} /\ input_type \in TextLikeTypes
                THEN <<ExtractedAffordance(INPUT_TEXT, element.id)>> ELSE <<>>)
            \o (IF tag_name = "select"
                THEN <<ExtractedAffordance(SELECT_OPTION, element.id)>> ELSE <<>>)

\* the loop body: the affordances appended for one element
AffordancesOfElement(element) ==
    IF ~Truthy(element.id) THEN <<>>
    ELSE LET tag_name == LowerOr(element.tagName, "")
             input_type == LowerOr(element.attributes.type, "text")
         IN (IF tag_name \in {"button", "a"} \/ Truthy(AttrGet(element.attributes.onclick, None))
             THEN <<ExtractedAffordance(CLICK, element.id)>> ELSE <<>>)
            \o (IF tag_name \in {"input", "textarea"} /\ input_type \in TextLikeTypes
                THEN <<ExtractedAffordance(INPUT_TEXT, element.id)>> ELSE <<>>)
            \o (IF tag_name = "select"
                THEN <<ExtractedAffordance(SELECT_OPTION, element.id)>> ELSE <<>>)

RECURSIVE AffordancesOfElements(_)
AffordancesOfElements(elements) ==
    IF elements = <<>> THEN <<>>
    ELSE AffordancesOfElement(Head(elements)) \o AffordancesOfElements(Tail(elements))

\* HybridPlanner.extract_affordances_from_page
ExtractAffordancesFromPage(page) ==
    IF page.is_none \/ page.elements = <<>> THEN <<>>
    ELSE AffordancesOfElements(page.elements)

(***************************************************************************)
(* SpecExtract: affordances are extracted from snapshots of elements of    *)
(* every kind, by a planner that may hold an affordance.                   *)
(***************************************************************************)
ExtractElements ==
    { ElementOf("submit_btn", "button", Absent, Absent),
      ElementOf("home_link", "A", Absent, Absent),
      ElementOf("card", "div", "open()", Absent),
      ElementOf("card", "div", "", Absent),
      ElementOf("email_input", "input", Absent, Absent),
      ElementOf("email_input", "INPUT", Absent, "Email"),
      ElementOf("agree", "input", Absent, "checkbox"),
      ElementOf("comment", "textarea", "track()", ""),
      ElementOf("country", "select", Absent, Absent),
      ElementOf(None, "button", Absent, Absent) }

RECURSIVE ElementListsOver(_)
ElementListsOver(n) ==
    IF n = 0 THEN {<<>>}
    ELSE ElementListsOver(n - 1)
             \cup {Append(l, e) : l \in ElementListsOver(n - 1), e \in ExtractElements}

ExtractPages == {NonePage} \cup {Page(elems) : elems \in ElementListsOver(MaxElements)}

\* what extract_affordances_from_page returns on each snapshot
ExtractedOf == [page \in ExtractPages |-> ExtractAffordancesFromPage(page)]

ExtractCall ==
    /\ \E page \in ExtractPages :
          call' = [op |-> "extract_affordances_from_page", scraped_page |-> page,
                   returned |-> ExtractedOf[page]]
    /\ UNCHANGED <<plannerVars, busVars, coordinatorVars, coordination>>

ExtractRegisterAffordance ==
    /\ affordances = <<>>
    /\ RegisterAffordance(AffordancePool[1])
    /\ call' = [op |-> "register_affordance"]
    /\ UNCHANGED <<busVars, coordinatorVars, coordination>>

NextExtract ==
    \/ ExtractCall
    \/ ExtractRegisterAffordance

SpecExtract == InitGate /\ [][NextExtract]_vars

(***************************************************************************)
(* Claims about extract_affordances_from_page (SpecExtract)                *)
(***************************************************************************)
\* the tag and the type of an element, as the claim reads them
TagOf(element) == IF element.tagName = None THEN "" ELSE Lower(element.tagName)

TypeOf(element) ==
    IF element.attributes.type \in {Absent, None, ""} THEN "text"
    ELSE Lower(element.attributes.type)

HasClickHandler(element) == element.attributes.onclick \notin {Absent, None, ""}

\* the action types for which an element with an id yields an affordance
ExpectedTypes(element) ==
    {t \in {CLICK, INPUT_TEXT, SELECT_OPTION} :
        \/ t = CLICK /\ (TagOf(element) \in {"button", "a"} \/ HasClickHandler(element))
        \/ t = INPUT_TEXT /\ TagOf(element) \in {"input", "textarea"}
                          /\ TypeOf(element) \in TextLikeTypes
        \/ t = SELECT_OPTION /\ TagOf(element) = "select"}

\* the affordances an extraction on the one-element snapshot returns
ExtractedFor(element) == ExtractAffordancesFromPage(Page(<<element>>))

\* C40: extract_affordances_from_page yields, for each element that has an
\* id, a CLICK affordance iff its tag is button or anchor or it carries a
\* non-empty click-handler attribute, an INPUT_TEXT affordance iff its tag is
\* input or textarea with a text-like type (a missing type counting as
\* text), and a SELECT_OPTION affordance iff its tag is select, each scoped
\* to that element and gated on the element being visible and enabled;
\* elements without an id yield nothing; the affordances of a snapshot are
\* those of its elements in page order; the planner's registries are left
\* unchanged.
C40_ExtractedAffordances ==
    /\ [](call.op = "extract_affordances_from_page" =>
              LET elements == call.scraped_page.elements
              IN /\ call.returned =
                        Concat([i \in DOMAIN elements |-> ExtractedFor(elements[i])])
                 /\ \A i \in DOMAIN elements :
                        LET e == elements[i]
                            yielded == ExtractedFor(e)
                        IN /\ ~Truthy(e.id) => yielded = <<>>
                           /\ Truthy(e.id) =>
                                 /\ {yielded[j].action_type : j \in DOMAIN yielded}
                                        = ExpectedTypes(e)
                                 /\ Len(yielded) = Cardinality(ExpectedTypes(e))
                           /\ \A j \in DOMAIN yielded :
                                 /\ yielded[j].element_id = e.id
                                 /\ yielded[j].preconditions =
                                        <<Predicate(ELEMENT_VISIBLE, e.id, NoValue),
                                          Predicate(ELEMENT_ENABLED, e.id, NoValue)>>)
    /\ [][call'.op = "extract_affordances_from_page" =>
              /\ affordances' = affordances /\ guards' = guards
              /\ fallback_actions' = fallback_actions
              /\ action_history' = action_history]_vars

\* a planner holding an affordance extracted from a snapshot of an
\* upper-case input of type Email and a textarea with a click handler:
\* INPUT_TEXT, then CLICK and INPUT_TEXT
C40_Witness ==
    /\ call.op = "extract_affordances_from_page"
    /\ Len(affordances) = 1
    /\ Len(call.scraped_page.elements) = 2
    /\ Len(call.returned) = 3
    /\ call.returned[1].action_type = INPUT_TEXT
    /\ call.returned[1].element_id = "email_input"
    /\ call.scraped_page.elements[1].tagName = "INPUT"
    /\ call.returned[2].action_type = CLICK
    /\ call.returned[3].element_id = "comment"

(***************************************************************************)
(* SpecUnmatched: a planner whose affordances are all scoped to the submit *)
(* button, among them the ones extracted from the form snapshot, validates *)
(* clicks on that element, on another element and on no element.           *)
(***************************************************************************)
ScopedAffordances ==
    ExtractAffordancesFromPage(EnvPool[1].page) \o <<AffordancePool[1], AffordancePool[3]>>

UnmatchedActionPool ==
    << Action(CLICK, "cancel_btn"), Action(CLICK, "submit_btn"), Action(CLICK, None) >>

UnmatchedActionLists == ListsOver(UnmatchedActionPool, MaxActions)

UnmatchedRegisterAffordance ==
    \E k \in DOMAIN ScopedAffordances :
        /\ \A j \in DOMAIN affordances : affordances[j] # ScopedAffordances[k]
        /\ RegisterAffordance(ScopedAffordances[k])
        /\ UNCHANGED <<busVars, swarmVars>>

\* the guard that blocks clicks on example.com, registered once
UnmatchedRegisterGuard ==
    /\ guards = <<>>
    /\ RegisterGuard(GuardPool[2])
    /\ UNCHANGED <<busVars, swarmVars>>

UnmatchedValidate ==
    \E actions \in UnmatchedActionLists, e \in DOMAIN EnvPool :
        /\ ValidateAndFilterActions(actions, EnvPool[e].page, EnvPool[e].url)
        /\ UNCHANGED <<busVars, swarmVars>>

NextUnmatched ==
    \/ UnmatchedRegisterAffordance
    \/ UnmatchedRegisterGuard
    \/ UnmatchedValidate

SpecUnmatched == InitGate /\ [][NextUnmatched]_vars

(***************************************************************************)
(* Claims about affordances of other elements (SpecUnmatched)              *)
(***************************************************************************)
\* affordances are registered for the type of action i of the last call,
\* but only for other elements: none has element_id unset or equal to the
\* element of the action
OnlyForOtherElements(i) ==
    LET a == result.actions[i]
    IN /\ \E k \in DOMAIN affordances : affordances[k].action_type = a.action_type
       /\ \A k \in DOMAIN affordances :
              affordances[k].action_type = a.action_type =>
                  /\ affordances[k].element_id # None
                  /\ affordances[k].element_id # a.element_id

\* no guard that is active under the validated snapshot blocks action i
NoGuardBlocks(i) ==
    \A g \in DOMAIN guards :
        ~(GuardIsActive(guards[g], result.page, result.url)
            /\ GuardBlocksAction(guards[g], result.actions[i]))

\* the element of action i is in the validated snapshot
ElementInSnapshot(i) ==
    /\ ~result.page.is_none
    /\ \E j \in DOMAIN result.page.elements :
           result.page.elements[j].id = result.actions[i].element_id

\* C34: an action whose type has registered affordances, but only for other
\* elements, is treated as unmatched when no guard blocks it: it goes to
\* filtered_actions with the warning "No affordance registered for action
\* <type>" and not to rejected_actions, whether or not its element is in
\* the snapshot.
C34_OtherElementsUnmatched ==
    result.called =>
        \A i \in DOMAIN result.actions :
            (OnlyForOtherElements(i) /\ NoGuardBlocks(i)) =>
                /\ i \in Range(result.filtered_from)
                /\ i \notin Range(result.rejected_from)
                /\ result.outcomes[i].warning =
                       "No affordance registered for action " \o result.actions[i].action_type
                /\ result.outcomes[i].warning \in Range(result.warnings)

\* on the snapshot whose submit button is hidden, the click on the submit
\* button was rejected by its affordance and the click on cancel_btn, an
\* element the snapshot does not hold, was accepted with the warning
C34_Witness ==
    /\ result.called
    /\ Len(result.actions) = 2
    /\ result.actions[1] = Action(CLICK, "submit_btn")
    /\ result.actions[2] = Action(CLICK, "cancel_btn")
    /\ OnlyForOtherElements(2) /\ ~ElementInSnapshot(2)
    /\ result.rejected_from = <<1>>
    /\ result.filtered_from = <<2>>
    /\ result.warnings = <<"No affordance registered for action click">>
    /\ ExtractAffordancesFromPage(EnvPool[1].page)[1] \in Range(affordances)

(***************************************************************************)
(* Two enabled coordinators on the shared bus (SpecCrossTask)              *)
(***************************************************************************)
NextCrossTask ==
    \/ SwarmStart
    \/ PlanningPlan
    \/ PlanningExecute

SpecCrossTask == InitPlanning /\ [][NextCrossTask]_vars

\* the validator agent a coordinator builds for a task
ValidatorOf(task_id) == SwarmAgents(task_id)[3]

\* the envelope is in the queue
Enqueued(qs, q, message) == \E k \in DOMAIN qs[q].items : qs[q].items[k] = message

\* positions of the envelopes a step publishes
NewlyPublished == (Len(published) + 1)..Len(published')

\* C35: delivery by recipient role is not scoped by task: when two
\* enabled coordinators for different tasks have started their agents on
\* the shared bus, an envelope that an agent of task A addresses to the
\* validator role (a PLAN or an ACTION_PROPOSAL) is also enqueued on the
\* queue of task B's validator, although its task_id is A's.
C35_RoleDeliveryCrossesTasks ==
    [][\A i \in NewlyPublished :
          LET message == published'[i]
          IN message.recipient_role = VALIDATOR =>
                /\ message.message_type \in {PLAN, ACTION_PROPOSAL}
                /\ \A t \in Tasks :
                      (AllActive(message.task_id) /\ AllActive(t)) =>
                          /\ ~Enqueued(queues, agents[ValidatorOf(t).agent_id].message_queue, message)
                          /\ Enqueued(queues', agents[ValidatorOf(t).agent_id].message_queue, message)]_vars

\* the validator of one task holds a PLAN and an ACTION_PROPOSAL of the
\* other task in its queue
C35_Witness ==
    \E a \in Tasks : \E b \in Tasks \ {a} :
        /\ AllActive(a) /\ AllActive(b)
        /\ \E type \in {PLAN, ACTION_PROPOSAL} :
              \E k \in DOMAIN queues[agents[ValidatorOf(b).agent_id].message_queue].items :
                  LET message == queues[agents[ValidatorOf(b).agent_id].message_queue].items[k]
                  IN /\ message.message_type = type
                     /\ message.task_id = a
                     /\ message.recipient_role = VALIDATOR
                     /\ message.sender_id \in AgentIdsOf({a})

(***************************************************************************)
(* SpecRolling: one planner with a positive window that validates one      *)
(* batch after another, registers the guard on example.com and is cleared. *)
(***************************************************************************)
RollingActionPool ==
    << Action(CLICK, "btn1"), Action(INPUT_TEXT, "btn1"), Action(INPUT_TEXT, "") >>

RollingActionLists == ListsOver(RollingActionPool, MaxActions)

RollingValidate ==
    \E actions \in RollingActionLists, env \in LoopEnvs :
        /\ ValidateAndFilterActions(actions, env.page, env.url)
        /\ UNCHANGED <<busVars, swarmVars>>

NextRolling ==
    \/ RollingValidate
    \/ LoopRegisterGuard
    \/ PlannerClear

SpecRolling == InitLoop /\ [][NextRolling]_vars

RECURSIVE AcceptedKeysFrom(_, _)
\* the (element id or "global", action type) pairs of the actions of the
\* call that the loop over the input accepted, in input order
AcceptedKeysFrom(r, i) ==
    IF i > Len(r.actions) THEN <<>>
    ELSE (IF r.outcomes[i].accepted
          THEN << <<IF r.actions[i].element_id \in {None, ""} THEN "global"
                    ELSE r.actions[i].element_id,
                    r.actions[i].action_type>> >>
          ELSE <<>>) \o AcceptedKeysFrom(r, i + 1)

\* the last min(Len(s), n) entries of s
LastMin(s, n) ==
    LET k == IF Len(s) < n THEN Len(s) ELSE n
    IN [j \in 1..k |-> s[Len(s) - k + j]]

\* C36: after every validate_and_filter_actions call with
\* loop_detection_window = w > 0, the action history holds at most 2w
\* entries and equals the last min(n, 2w) accepted (element id or "global",
\* action type) pairs of all calls since the last clear, in acceptance
\* order; rejected actions never enter the history.  Stated step by step:
\* clear leaves the history empty, a registration leaves it as it is, and a
\* validation leaves the last 2w entries of the history before it followed
\* by the pairs it accepted.
C36_HistoryIsLastAccepted ==
    /\ [](loop_detection_window > 0 => Len(action_history) <= 2 * loop_detection_window)
    /\ [][loop_detection_window > 0 =>
             IF result'.called
             THEN action_history' =
                      LastMin(action_history \o AcceptedKeysFrom(result', 1),
                              2 * loop_detection_window)
             ELSE IF Len(guards') > Len(guards)
                  THEN action_history' = action_history
                  ELSE action_history' = <<>>]_vars

\* a call that rejected an action, accepted another and pushed the oldest
\* entry out of a full history
C36_Witness ==
    /\ result.called
    /\ loop_detection_window > 0
    /\ result.rejected_actions # <<>>
    /\ result.filtered_actions # <<>>
    /\ Len(result.history_before) = 2 * loop_detection_window
    /\ Len(action_history) = 2 * loop_detection_window
    /\ action_history # result.history_before

\* the history is two equal consecutive windows
TwoEqualWindows(history, window) ==
    /\ window > 0
    /\ Len(history) = 2 * window
    /\ \A j \in 1..window : history[j] = history[window + j]

\* C37: once the action history consists of two equal consecutive windows,
\* every later validate_and_filter_actions call that accepts no action (an
\* empty input list, or every action rejected) leaves the history unchanged
\* and reports the loop warning again, although that call added nothing to
\* the repeated sequence.
C37_WarningRepeatsOnEmptyCall ==
    [][(/\ TwoEqualWindows(action_history, loop_detection_window)
        /\ result'.called
        /\ \A i \in DOMAIN result'.outcomes : ~result'.outcomes[i].accepted) =>
           /\ action_history' = action_history
           /\ result'.filtered_actions = <<>>
           /\ LoopWarned(result')
           /\ result'.loop_warning = LoopWarning(loop_detection_window)]_vars

\* a call that rejected every action it was given, made on a history of two
\* equal windows, has warned
C37_Witness ==
    /\ result.called
    /\ TwoEqualWindows(result.history_before, loop_detection_window)
    /\ result.actions # <<>>
    /\ Len(result.rejected_actions) = Len(result.actions)
    /\ action_history = result.history_before
    /\ LoopWarned(result)

\* the same after a call with an empty input list
C37_WitnessEmptyInput ==
    /\ result.called
    /\ TwoEqualWindows(result.history_before, loop_detection_window)
    /\ result.actions = <<>>
    /\ action_history = result.history_before
    /\ LoopWarned(result)

(***************************************************************************)
(* SpecVerdict: one coordinator, enabled or not, asked about single        *)
(* actions of every kind while guards are registered with the planner.     *)
(***************************************************************************)
VerdictActionPool ==
    << Action(CLICK, "submit_btn"), Action(TERMINATE, None), Action(COMPLETE, None),
       Action(COMPLETE, "submit_btn"), Action(INPUT_TEXT, "email_input"), Action(WAIT, None) >>

VerdictCoordinate ==
    /\ Len(published) < MaxPublish
    /\ \E k \in DOMAIN VerdictActionPool :
          CoordinateActionExecution("t1", "s1", VerdictActionPool[k])
    /\ UNCHANGED plannerVars

NextVerdict ==
    \/ VerdictCoordinate
    \/ SafetyRegisterGuard

SpecVerdict == InitSafety /\ [][NextVerdict]_vars

\* C38: in enabled mode coordinate_action_execution has the validator judge
\* a proposal that the coordinator rebuilds with fixed confidence 0.9 and
\* risk "low", so its verdict depends on the action type alone: it approves
\* iff the action's type is neither terminate nor complete, and the returned
\* modifications are always empty.  The two envelopes the call publishes are
\* the executor's proposal and the validator's decision on it.
C38_VerdictByTypeAlone ==
    (enable_swarm /\ coordination.called) =>
        /\ coordination.approved <=>
               coordination.action.action_type \notin {TERMINATE, COMPLETE}
        /\ coordination.modifications = EmptyDict
        /\ Len(published) >= 2
        /\ LET proposal == published[Len(published) - 1]
               decision == published[Len(published)]
           IN /\ proposal.message_type = ACTION_PROPOSAL
              /\ proposal.sender_id = ExecutorAgent(coordination.task_id, "s1").agent_id
              /\ proposal.content.action_type = coordination.action.action_type
              /\ decision.sender_id = ValidatorAgent(coordination.task_id, "s1").agent_id
              /\ decision.in_response_to = proposal.message_id
              /\ decision.content.approved = coordination.approved
              /\ decision.message_type =
                     (IF coordination.approved THEN ACTION_APPROVAL ELSE ACTION_REJECTION)

\* the enabled coordinator has rejected a complete and, before it, approved
\* a click while a guard that blocks clicks was registered
C38_Witness ==
    /\ enable_swarm
    /\ coordination.called
    /\ coordination.action.action_type = COMPLETE
    /\ ~coordination.approved
    /\ guards # <<>>
    /\ \E i \in DOMAIN published : published[i].message_type = ACTION_APPROVAL

(***************************************************************************)
(* SpecCreatePlan: the planner agents of two enabled coordinators are      *)
(* asked for plans, before and after the swarms are started.               *)
(***************************************************************************)
CreatePlanPool == << Action(CLICK, "btn1"), Action(INPUT_TEXT, "email_input"), Action(TERMINATE, None) >>

\* lengths around the two thresholds of _assess_risk
CreatePlanLengths == {0, 5, 6, 10, 11}

CreatePlanLists ==
    {[i \in 1..n |-> CreatePlanPool[((i - 1) % Len(CreatePlanPool)) + 1]] : n \in CreatePlanLengths}
        \cup {<<Action(TERMINATE, None), Action(CLICK, "btn1")>>}

\* planner.create_plan(scraped_page, actions) on the planner of the task
CreatePlan(task_id, actions) ==
    LET created == AfterCreatePlan(BusNow, SwarmAgents(task_id)[1], actions)
    IN /\ SetBus(created.bus, created.last)
       /\ call' = [op |-> "create_plan", task_id |-> task_id, actions |-> actions,
                   returned |-> [actions |-> created.actions, plan |-> created.plan]]

CreatePlanCall ==
    /\ Len(published) < MaxEnvelopes
    /\ \E t \in Tasks, actions \in CreatePlanLists : CreatePlan(t, actions)
    /\ UNCHANGED <<swarmFrame, agents, coordination>>

NextCreatePlan ==
    \/ SwarmStart
    \/ CreatePlanCall

SpecCreatePlan == InitPlanning /\ [][NextCreatePlan]_vars

\* the risk level the step-count heuristic gives n actions
RiskOfCount(n) ==
    CASE n > 10 -> "high"
      [] n >= 6 /\ n <= 10 -> "medium"
      [] n <= 5 -> "low"

\* C39: create_plan returns the very action list it was given, with no
\* action added, removed or reordered, and a plan with one step per action
\* in order whose risk_level is high for more than 10 actions, medium for 6
\* to 10, and low for 5 or fewer; it publishes a THOUGHT and then a PLAN
\* addressed to the validator role.
C39_CreatePlan ==
    [][call'.op = "create_plan" =>
          LET given == call'.actions
              returned == call'.returned
              n == Len(published)
          IN /\ returned.actions = given
             /\ Len(returned.plan.steps) = Len(given)
             /\ \A i \in DOMAIN given :
                    returned.plan.steps[i].action_type = given[i].action_type
             /\ returned.plan.risk_level = RiskOfCount(Len(given))
             /\ Len(published') = n + 2
             /\ SubSeq(published', 1, n) = published
             /\ published'[n + 1].message_type = THOUGHT
             /\ published'[n + 1].recipient_role = None
             /\ published'[n + 2].message_type = PLAN
             /\ published'[n + 2].recipient_role = VALIDATOR
             /\ published'[n + 2].content = returned.plan
             /\ \A k \in {n + 1, n + 2} :
                    /\ published'[k].sender_id = SwarmAgents(call'.task_id)[1].agent_id
                    /\ published'[k].task_id = call'.task_id]_vars

\* plans of every risk level have been made, at both thresholds
C39_Witness ==
    /\ call.op = "create_plan"
    /\ Len(call.actions) = 10
    /\ call.returned.plan.risk_level = "medium"
    /\ \E i \in DOMAIN published, j \in DOMAIN published :
          /\ published[i].message_type = PLAN
          /\ Len(published[i].content.steps) = 5
          /\ published[i].content.risk_level = "low"
          /\ published[j].message_type = PLAN
          /\ Len(published[j].content.steps) = 11
          /\ published[j].content.risk_level = "high"

====
